---- MODULE Spec2Model ----
(***************************************************************************)
(* A model of the sheet-copy engine of Slipfaith/copygoogle:               *)
(*   - the column resolvers and their header caches                        *)
(*     (src/logic/sheet_utils.py, resolve_excel_columns,                   *)
(*     resolve_google_columns, clear_column_cache),                        *)
(*   - copy_sheet_data (src/logic/sheet_utils.py),                         *)
(*   - ExcelToGoogleSheets.process_excel_file (src/business/processor.py). *)
(*                                                                         *)
(* Text is modelled as a sequence of one-character strings, so that        *)
(* strip, split, isdigit, isalpha, upper and lower are computed as Python  *)
(* computes them.                                                          *)
(***************************************************************************)
EXTENDS Integers, Sequences, FiniteSets, TLC

(***************************************************************************)
(* Characters and Python's str methods                                     *)
(***************************************************************************)
UpperLetters ==
    << "A", "B", "C", "D", "E", "F", "G", "H", "I", "J", "K", "L", "M",
       "N", "O", "P", "Q", "R", "S", "T", "U", "V", "W", "X", "Y", "Z" >>

LowerLetters ==
    << "a", "b", "c", "d", "e", "f", "g", "h", "i", "j", "k", "l", "m",
       "n", "o", "p", "q", "r", "s", "t", "u", "v", "w", "x", "y", "z" >>

DigitChars == << "0", "1", "2", "3", "4", "5", "6", "7", "8", "9" >>

IsUpperChar(c) == \E i \in 1..26 : UpperLetters[i] = c
IsLowerChar(c) == \E i \in 1..26 : LowerLetters[i] = c
IsLetterChar(c) == IsUpperChar(c) \/ IsLowerChar(c)
IsDigitChar(c) == \E i \in 1..10 : DigitChars[i] = c
IsSpaceChar(c) == c = " "

LetterOrd(c) == CHOOSE i \in 1..26 : UpperLetters[i] = c \/ LowerLetters[i] = c
DigitVal(c) == (CHOOSE i \in 1..10 : DigitChars[i] = c) - 1

UpperChar(c) == IF IsLowerChar(c) THEN UpperLetters[LetterOrd(c)] ELSE c
LowerChar(c) == IF IsUpperChar(c) THEN LowerLetters[LetterOrd(c)] ELSE c

\* str.isdigit(): non-empty and every character a digit
isdigit(s) == s # << >> /\ \A i \in 1..Len(s) : IsDigitChar(s[i])

\* str.isalpha(): non-empty and every character a letter, of any length
isalpha(s) == s # << >> /\ \A i \in 1..Len(s) : IsLetterChar(s[i])

upper(s) == [i \in 1..Len(s) |-> UpperChar(s[i])]
lower(s) == [i \in 1..Len(s) |-> LowerChar(s[i])]

RECURSIVE lstrip(_)
lstrip(s) == IF s # << >> /\ IsSpaceChar(Head(s)) THEN lstrip(Tail(s)) ELSE s

RECURSIVE rstrip(_)
rstrip(s) ==
    IF s # << >> /\ IsSpaceChar(s[Len(s)])
    THEN rstrip(SubSeq(s, 1, Len(s) - 1))
    ELSE s

\* str.strip()
strip(s) == rstrip(lstrip(s))

\* delim in s
Contains(s, delim) == \E i \in 1..Len(s) : s[i] = delim

FirstIndex(s, delim) ==
    CHOOSE i \in 1..Len(s) : s[i] = delim /\ \A j \in 1..(i - 1) : s[j] # delim

\* s.split(delim, 1), for a string that contains delim: the text before the
\* first delim and the text after it
split1(s, delim) ==
    << SubSeq(s, 1, FirstIndex(s, delim) - 1),
       SubSeq(s, FirstIndex(s, delim) + 1, Len(s)) >>

\* int(s) for a string of digits
RECURSIVE int(_)
int(s) ==
    IF s = << >> THEN 0
    ELSE 10 * int(SubSeq(s, 1, Len(s) - 1)) + DigitVal(s[Len(s)])

(***************************************************************************)
(* openpyxl.utils: get_column_letter, column_index_from_string             *)
(***************************************************************************)
\* The largest column index openpyxl converts (the column ZZZ).
MaxColumnIndex == 18278

RECURSIVE ColLetters(_)
ColLetters(n) ==
    IF n <= 0 THEN << >>
    ELSE IF n % 26 = 0
         THEN Append(ColLetters((n \div 26) - 1), "Z")
         ELSE Append(ColLetters(n \div 26), UpperLetters[n % 26])

ValidColumnIndex(n) == 1 <= n /\ n <= MaxColumnIndex

\* get_column_letter(idx); raises ValueError outside 1..18278
get_column_letter(idx) == ColLetters(idx)

RECURSIVE ColIndex(_)
ColIndex(s) ==
    IF s = << >> THEN 0
    ELSE 26 * ColIndex(SubSeq(s, 1, Len(s) - 1)) + LetterOrd(s[Len(s)])

\* column_index_from_string accepts one to three letters, in either case
ValidColumnName(s) == isalpha(s) /\ Len(s) <= 3

\* column_index_from_string(s); raises ValueError for any other string
column_index_from_string(s) == ColIndex(s)

(***************************************************************************)
(* Cell values.  A value is None, a string or a number; s is the text      *)
(* str(value) gives.                                                       *)
(***************************************************************************)
NoneValue == [t |-> "none", s |-> << >>]
StrValue(text) == [t |-> "str", s |-> text]
NumValue(text) == [t |-> "num", s |-> text]

\* str(value)
str(v) == v.s

(***************************************************************************)
(* The column resolvers: resolve_excel_columns, resolve_google_columns     *)
(***************************************************************************)
\* The outcome of a call: the list it returns, or the exception it raises
\* (culprit is the text the exception's message names).
Returned(cols) == [ok |-> TRUE, cols |-> cols, err |-> "", culprit |-> << >>]
Raised(err, culprit) == [ok |-> FALSE, cols |-> << >>, err |-> err, culprit |-> culprit]

\* resolve_excel_columns, lines 15-19: the header map of an openpyxl sheet,
\* built from the cells of row 1 whose value is not None; a later cell with
\* the same key replaces an earlier one.
RECURSIVE ExcelHeaderMap(_)
ExcelHeaderMap(row) ==
    IF row = << >> THEN << >>
    ELSE LET n == Len(row)
             rest == ExcelHeaderMap(SubSeq(row, 1, n - 1))
         IN IF row[n].t # "none"
            THEN (lower(strip(str(row[n]))) :> get_column_letter(n)) @@ rest
            ELSE rest

\* resolve_google_columns, lines 63-68: the header map of a gspread
\* worksheet, built from the values of row 1 that are truthy.
RECURSIVE GoogleHeaderMap(_)
GoogleHeaderMap(row) ==
    IF row = << >> THEN << >>
    ELSE LET n == Len(row)
             rest == GoogleHeaderMap(SubSeq(row, 1, n - 1))
         IN IF row[n].t # "none" /\ str(row[n]) # << >>
            THEN (lower(strip(str(row[n]))) :> get_column_letter(n)) @@ rest
            ELSE rest

BuildHeaderMap(kind, row) ==
    IF kind = "excel" THEN ExcelHeaderMap(row) ELSE GoogleHeaderMap(row)

\* A range that only counts upwards: range(start_idx, end_idx + 1)
ExpandRangeAscending(start_idx, end_idx) ==
    [i \in 1..(IF end_idx >= start_idx THEN end_idx - start_idx + 1 ELSE 0) |->
        get_column_letter(start_idx + i - 1)]

\* lines 37-39 / 86-88: range(start_idx, end_idx + step, step) mapped through
\* get_column_letter
ExpandRange(start_idx, end_idx) ==
    LET step == IF end_idx >= start_idx THEN 1 ELSE -1
        n == (end_idx - start_idx) * step + 1
    IN [i \in 1..n |-> get_column_letter(start_idx + (i - 1) * step)]

\* A header lookup that skips the specifier it does not find
HeaderLookupSkip(header_map, col, col_str) ==
    LET key == lower(col_str)
    IN IF key \in DOMAIN header_map
       THEN Returned(<< header_map[key] >>)
       ELSE Returned(<< >>)

\* lines 49-53 / 98-102: the header lookup of a specifier that is neither a
\* range, nor digits, nor letters
HeaderLookup(header_map, col, col_str) ==
    LET key == lower(col_str)
    IN IF key \in DOMAIN header_map
       THEN Returned(<< header_map[key] >>)
       ELSE Raised("ValueError", col)

\* lines 44-53 / 93-102: a specifier without a range delimiter
ResolveSimple(header_map, col, col_str) ==
    IF isdigit(col_str)
    THEN IF ValidColumnIndex(int(col_str))
         THEN Returned(<< get_column_letter(int(col_str)) >>)
         ELSE Raised("ValueError", col_str)
    ELSE IF isalpha(col_str)
         THEN Returned(<< upper(col_str) >>)
         ELSE HeaderLookup(header_map, col, col_str)

\* lines 30: the first of "-" and ":" that the specifier contains
RangeDelims == << "-", ":" >>
HasDelim(col_str) == \E d \in 1..2 : Contains(col_str, RangeDelims[d])
FirstDelim(col_str) ==
    IF Contains(col_str, RangeDelims[1]) THEN RangeDelims[1] ELSE RangeDelims[2]

\* lines 24-54 / 73-103: the loop over the specifiers.  The recursive calls
\* of lines 33-34 find the header map in the cache, which the outer call has
\* filled, so they run with the same map.
RECURSIVE ResolveColumns(_, _)
ResolveOne(header_map, col) ==
    LET col_str == strip(col)
    IN IF col_str = << >> THEN Returned(<< >>)
       ELSE IF HasDelim(col_str)
       THEN LET parts == split1(col_str, FirstDelim(col_str))
                s == ResolveColumns(header_map, << parts[1] >>)
            IN IF ~s.ok THEN s
               ELSE IF s.cols = << >> THEN Raised("IndexError", << >>)
               ELSE LET e == ResolveColumns(header_map, << parts[2] >>)
                    IN IF ~e.ok THEN e
                       ELSE IF e.cols = << >> THEN Raised("IndexError", << >>)
                       ELSE IF ~ValidColumnName(s.cols[1])
                            THEN Raised("ValueError", s.cols[1])
                       ELSE IF ~ValidColumnName(e.cols[1])
                            THEN Raised("ValueError", e.cols[1])
                       ELSE Returned(ExpandRange(column_index_from_string(s.cols[1]),
                                                 column_index_from_string(e.cols[1])))
       ELSE ResolveSimple(header_map, col, col_str)

ResolveColumns(header_map, columns) ==
    IF columns = << >> THEN Returned(<< >>)
    ELSE LET n == Len(columns)
             before == ResolveColumns(header_map, SubSeq(columns, 1, n - 1))
         IN IF ~before.ok THEN before
            ELSE LET this == ResolveOne(header_map, columns[n])
                 IN IF ~this.ok THEN this
                    ELSE Returned(before.cols \o this.cols)

\* lines 13-21 / 61-70: a resolver call with its header cache, a dict keyed by
\* id(sheet).  On a miss the map is built from row 1 of the sheet passed and
\* stored; on a hit the stored map is used, whichever sheet it was built from.
CacheAfter(cache, kind, sheet_id, header) ==
    IF sheet_id \in DOMAIN cache
    THEN cache
    ELSE (sheet_id :> BuildHeaderMap(kind, header)) @@ cache

CachedResolve(cache, kind, sheet_id, header, columns) ==
    ResolveColumns(CacheAfter(cache, kind, sheet_id, header)[sheet_id], columns)

\* An empty dict
EmptyDict == << >>

(***************************************************************************)
(* The inputs of the model: texts, header rows, specifiers                 *)
(***************************************************************************)
T_xy == << "x", " ", "y" >>
T_XY_padded == << " ", "X", " ", "Y", " " >>
T_Name == << "N", "a", "m", "e" >>
T_name == << "n", "a", "m", "e" >>
T_Qty == << "Q", "t", "y" >>
T_zz9 == << "z", "z", "9" >>
T_n_1 == << "n", "_", "1" >>

\* Row 1 of the sheets of the model.  An empty header cell is None in an
\* openpyxl sheet and "" in the list gspread's row_values(1) returns.
EmptyHeader(kind) == IF kind = "excel" THEN NoneValue ELSE StrValue(<< >>)

HeaderRows(kind) ==
    { << StrValue(T_xy), StrValue(T_Name), StrValue(T_Qty) >>,
      << StrValue(T_Qty), EmptyHeader(kind), StrValue(T_XY_padded) >>,
      << StrValue(T_n_1), StrValue(T_xy), StrValue(T_xy) >> }

SheetKinds == { "excel", "google" }

\* Specifiers without a range delimiter
SimpleSpecs ==
    { << "A" >>, << "C" >>, << "b" >>, << " ", "B", " " >>,
      << "1" >>, << "3" >>, << "0" >>,
      T_Qty, T_name, T_xy, T_XY_padded, T_zz9,
      << >>, << " " >> }

\* Specifiers that are ranges themselves, used as the bounds of a range
NestedSpecs == { << "A", "-", "B" >>, << "C", ":", "A" >> }

BoundSpecs == SimpleSpecs \cup NestedSpecs

RangeOf(X, d, Y) == X \o << d >> \o Y

RangeSpecs == { RangeOf(X, d, Y) : X \in BoundSpecs, Y \in BoundSpecs, d \in { "-", ":" } }

\* The longest list of simple specifiers passed in one call
MaxListLen == 2

RECURSIVE ListsUpTo(_, _)
ListsUpTo(S, n) ==
    IF n = 0 THEN { << >> }
    ELSE LET shorter == ListsUpTo(S, n - 1)
         IN shorter \cup { Append(l, x) : l \in { m \in shorter : Len(m) = n - 1 }, x \in S }

ColumnLists == ListsUpTo(SimpleSpecs, MaxListLen) \cup { << r >> : r \in RangeSpecs }

(***************************************************************************)
(* Cells of an openpyxl sheet                                              *)
(***************************************************************************)
\* value: cell.value in the workbook loaded with data_only=False (cell._value
\*        is the same object); data_type: "f" for a formula cell;
\* formula: the attribute cell.formula of cell types that have one, else None
\*        (cell._formula is absent: None);
\* cached: the value of the same cell in the workbook loaded with
\*        data_only=True; bold, size: cell.font.bold, cell.font.size.
EmptyCell ==
    [value |-> NoneValue, data_type |-> "n", formula |-> NoneValue,
     cached |-> NoneValue, bold |-> FALSE, size |-> 0]

\* Python's truth value of a cell value
Falsy(v) ==
    \/ v.t = "none"
    \/ (v.t = "str" /\ v.s = << >>)
    \/ (v.t = "num" /\ isdigit(v.s) /\ int(v.s) = 0)

StartsWithEq(text) == text # << >> /\ text[1] = "="

FormulaPlaceholder == << "=", "F", "O", "R", "M", "U", "L", "A", "_", "E", "X", "I", "S", "T", "S", "_", "B", "U", "T", "_", "C", "A", "N", "N", "O", "T", "_", "R", "E", "A", "D" >>

\* getattr(cell, attr, None) for the attributes get_cell_formula_simple reads
FormulaAttrs == << "value", "_value", "formula", "_formula" >>

GetAttr(cell, attr) ==
    CASE attr = "value" -> cell.value
      [] attr = "_value" -> cell.value
      [] attr = "formula" -> cell.formula
      [] OTHER -> NoneValue

\* get_cell_formula_simple(cell): the formula text, or None
RECURSIVE FormulaFromAttr(_, _)
FormulaFromAttr(cell, k) ==
    IF k > Len(FormulaAttrs)
    THEN IF cell.data_type = "f" THEN StrValue(FormulaPlaceholder) ELSE NoneValue
    ELSE LET val == GetAttr(cell, FormulaAttrs[k])
         IN IF Falsy(val) THEN FormulaFromAttr(cell, k + 1)
            ELSE IF StartsWithEq(str(val)) THEN StrValue(str(val))
            ELSE IF FormulaAttrs[k] \in { "formula", "_formula" }
                 THEN StrValue(<< "=" >> \o str(val))
                 ELSE FormulaFromAttr(cell, k + 1)

\* The extraction without the placeholder: None for a formula whose text
\* cannot be read
FormulaTextOrNone(cell) ==
    IF FormulaFromAttr(cell, 1) = StrValue(FormulaPlaceholder) THEN NoneValue
    ELSE FormulaFromAttr(cell, 1)

get_cell_formula_simple(cell) == FormulaFromAttr(cell, 1)

\* get_cell_formatting(cell), reduced to the font's bold flag and size (fill,
\* colours and alignment add keys to the same dict in the same way): the
\* formatting dict, or None when it is empty.
NoFormat == [bold |-> FALSE, fontSize |-> 0]

get_cell_formatting(cell) == [bold |-> cell.bold, fontSize |-> cell.size]

(***************************************************************************)
(* convert_excel_formula_to_google                                         *)
(***************************************************************************)
\* str.replace(old, new) for a non-empty old
RECURSIVE Replace(_, _, _)
Replace(s, old, new) ==
    IF Len(s) < Len(old) THEN s
    ELSE IF SubSeq(s, 1, Len(old)) = old
         THEN new \o Replace(SubSeq(s, Len(old) + 1, Len(s)), old, new)
         ELSE << Head(s) >> \o Replace(Tail(s), old, new)

\* The dict replacements, in its order.  A character outside ASCII is written
\* as its code point.
replacements ==
    <<
       << << "U+2013", "U+00FC", "U+2013", "U+2020", "U+2013", "U+00FB", "U+2013", "U+00FC", "U+2013", "U+00F2", "U+2013", "U+00B0", "U+2013", "U+00F9" >>,
          << "U", "P", "P", "E", "R" >> >>,
       << << "U+2013", "U+00B0", "U+2013", "U+00A2", "U+2013", "U+2020", "U+2013", "U+00FB", "U+2013", "U+00DF", "U+2013", "U+00F9" >>,
          << "L", "O", "W", "E", "R" >> >>,
       << << "U+2013", "U+00FC", "U+2013", "U+2020", "U+2013", "U+00FB", "U+2013", "U+00FC", "U+2013", "U+00F9", "U+2013", "U+00EA", "U+2013", "U+00DF" >>,
          << "P", "R", "O", "P", "E", "R" >> >>,
       << << "U+2013", "U+00B0", "U+2013", "U+00B6", "U+2013", "U+00EF", "U+2013", "U+00FC", "U+2013", "U+00F2", "U+2013", "U+00A2", "U+2013", "U+00A8" >>,
          << "C", "O", "N", "C", "A", "T", "E", "N", "A", "T", "E" >> >>,
       << << "U+2013", "U+00EE", "U+2013", "U+00F5", "U+2013", "U+00B0", "U+2013", "U+00A2", "U+2013", "U+2020" >>,
          << "L", "E", "N" >> >>,
       << << "U+2013", "U+00F5", "U+2013", "U+00EF", "U+2013", "U+00ED", "U+2013", "U+00B0", "U+2013", "U+00F2", "U+2013", "U+00FA", "U+2013", "U+00ED" >>,
          << "L", "E", "F", "T" >> >>,
       << << "U+2013", "U+00FC", "U+2013", "U+2020", "U+2013", "U+00EA", "U+2013", "U+00ED", "U+2013", "U+00B0", "U+2013", "U+00F2", "U+2013", "U+00FA", "U+2013", "U+00ED" >>,
          << "R", "I", "G", "H", "T" >> >>,
       << << "U+2013", "U+00FC", "U+2013", "U+00B0", "U+2013", "U+00A2", "U+2013", "U+2020" >>,
          << "M", "I", "D" >> >>,
       << << "U+2013", "U+00F9", "U+2013", "U+00EA", "U+2013", "U+00F4", "U+2013", "U+00A2", "U+2013", "U+00F2" >>,
          << "F", "I", "N", "D" >> >>,
       << << "U+2013", "U+00F3", "U+2013", "U+00EA", "U+2013", "U+00FA", "U+2013", "U+00EF", "U+2013", "U+00F9", "U+2013", "U+00F2", "U+2013", "U+00A2", "U+2013", "U+00A8" >>,
          << "S", "U", "B", "S", "T", "I", "T", "U", "T", "E" >> >>,
       << << "U+2013", "U+00FB", "U+2013", "U+00F6", "U+2013", "U+2020", "U+2013", "U+00A3", "U+2013", "U+00EC", "U+2013", "U+00F5" >>,
          << "R", "O", "U", "N", "D" >> >>,
       << << "U+2013", "U+00B6", "U+2013", "U+00EF", "U+2013", "U+00F5", "U+2013", "U+00FB", "U+2013", "U+00EF" >>,
          << "I", "N", "T" >> >>,
       << << "U+2013", "U+00B0", "U+2013", "U+00A3", "U+2013", "U+00FA", "U+2013", "U+00FA" >>,
          << "S", "U", "M" >> >>,
       << << "U+2013", "U+00B0", "U+2013", "U+2020", "U+2013", "U+00F3", "U+2013", "U+00F9", "U+2013", "U+00EA", "U+2013", "U+00DF" >>,
          << "A", "V", "E", "R", "A", "G", "E" >> >>,
       << << "U+2013", "U+00B0", "U+2013", "U+00DF", "U+2013", "U+00C5", "U+2013", "U+00A2" >>,
          << "C", "O", "U", "N", "T" >> >>,
       << << "U+2013", "U+00B0", "U+2013", "U+00DF", "U+2013", "U+00C5", "U+2013", "U+00A2", "U+2013", "U+00F3" >>,
          << "C", "O", "U", "N", "T", "A" >> >>,
       << << "U+2013", "U+00FA", "U+2013", "U+00EA", "U+2013", "U+00F6", "U+2013", "U+00B0" >>,
          << "M", "A", "X" >> >>,
       << << "U+2013", "U+00FA", "U+2013", "U+00F2", "U+2013", "U+00F9" >>,
          << "M", "I", "N" >> >>,
       << << "U+2013", "U+00EF", "U+2013", "U+00B0", "U+2013", "U+00F5", "U+2013", "U+00F2" >>,
          << "I", "F" >> >>,
       << << "U+2013", "U+00F2" >>,
          << "A", "N", "D" >> >>,
       << << "U+2013", "U+00F2", "U+2013", "U+00F5", "U+2013", "U+00F2" >>,
          << "O", "R" >> >>,
       << << "U+2013", "U+00F9", "U+2013", "U+00EF" >>,
          << "N", "O", "T" >> >>,
       << << "U+2013", "U+00ED", "U+2013", "U+00FC", "U+2013", "U+00EF", "U+2013", "U+2020" >>,
          << "V", "L", "O", "O", "K", "U", "P" >> >>,
       << << "U+2013", "U+00EC", "U+2013", "U+00FC", "U+2013", "U+2020" >>,
          << "H", "L", "O", "O", "K", "U", "P" >> >>,
       << << "U+2013", "U+00F2", "U+2013", "U+00F9", "U+2013", "U+00EE", "U+2013", "U+00EF", "U+2013", "U+00F6", "U+2013", "U+00B0" >>,
          << "I", "N", "D", "E", "X" >> >>,
       << << "U+2013", "U+00FC", "U+2013", "U+00FB", "U+2013", "U+00F2", "U+2013", "U+00B0", "U+2013", "U+00F6", "U+2013", "U+00FC", "O", "Z" >>,
          << "M", "A", "T", "C", "H" >> >>
    >>

RECURSIVE ReplaceAll(_, _)
ReplaceAll(s, k) ==
    IF k > Len(replacements) THEN s
    ELSE ReplaceAll(Replace(s, replacements[k][1], replacements[k][2]), k + 1)

convert_excel_formula_to_google(formula) ==
    IF formula = << >> \/ ~StartsWithEq(formula) THEN formula
    ELSE ReplaceAll(formula, 1)

(***************************************************************************)
(* copy_sheet_data, stage by stage                                         *)
(***************************************************************************)
SeqMax(s) == CHOOSE x \in { s[i] : i \in 1..Len(s) } : \A i \in 1..Len(s) : s[i] <= x
SeqMin(s) == CHOOSE x \in { s[i] : i \in 1..Len(s) } : \A i \in 1..Len(s) : s[i] >= x

\* excel_sheet.max_row
max_row(sheet) == Len(sheet.rows)

\* sheet[1]: the values of row 1
HeaderOf(sheet) == [i \in 1..Len(sheet.rows[1].cells) |-> sheet.rows[1].cells[i].value]

\* excel_sheet[f"{col_letter}{row_num}"] for a valid column name; a cell that
\* was never written is an empty cell
CellAt(sheet, col_letter, row_num) ==
    LET c == column_index_from_string(col_letter)
    IN IF row_num <= Len(sheet.rows) /\ c <= Len(sheet.rows[row_num].cells)
       THEN sheet.rows[row_num].cells[c]
       ELSE EmptyCell

\* A guard that looks at the source sheet's workbook only
GuardSourceOnly(sheet, values) ==
    IF sheet.data_only THEN "ValueError" ELSE ""

\* lines 281-284: the workbook-kind guard; "" when it passes
GuardError(sheet, values) ==
    IF sheet.data_only THEN "ValueError"
    ELSE IF values.given /\ ~values.data_only THEN "ValueError"
    ELSE ""

\* lines 341-367: the record copy_sheet_data keeps of one cell
CellData(sheet, values, col_letter, row_num) ==
    LET formula_cell == CellAt(sheet, col_letter, row_num)
    IN [value |-> IF values.given THEN formula_cell.cached ELSE formula_cell.value,
        formula |-> get_cell_formula_simple(formula_cell),
        formatting |-> get_cell_formatting(formula_cell)]

\* The test of lines 356-361 without the strip(): any string but '' is data
CellHasDataUnstripped(cell_data) ==
    \/ cell_data.formula # NoneValue
    \/ (cell_data.value # NoneValue /\ cell_data.value # StrValue(<< >>))

\* lines 356-361: the cell makes its row a row with data
CellHasData(cell_data) ==
    \/ cell_data.formula # NoneValue
    \/ (cell_data.value # NoneValue /\ strip(str(cell_data.value)) # << >>)

RowCells(sheet, values, source_cols, row_num) ==
    [j \in 1..Len(source_cols) |-> CellData(sheet, values, source_cols[j], row_num)]

\* lines 331-374: the scan of the rows row_num..max_row.  rows_data and
\* skipped_rows are the code's lists; read lists the rows whose cells were
\* read.
RECURSIVE ScanRows(_, _, _, _)
ScanRows(sheet, values, source_cols, row_num) ==
    IF row_num > max_row(sheet)
    THEN [rows_data |-> << >>, skipped_rows |-> << >>, read |-> << >>]
    ELSE LET rest == ScanRows(sheet, values, source_cols, row_num + 1)
             row_cells == RowCells(sheet, values, source_cols, row_num)
             has_data == \E j \in 1..Len(row_cells) : CellHasData(row_cells[j])
             reason == IF sheet.rows[row_num].hidden THEN "hidden row" ELSE "no data"
         IN [rows_data |-> IF has_data THEN << row_cells >> \o rest.rows_data
                           ELSE rest.rows_data,
             skipped_rows |-> IF has_data THEN rest.skipped_rows
                              ELSE << << row_num, reason >> >> \o rest.skipped_rows,
             read |-> << row_num >> \o rest.read]

\* The scan raises ValueError at its first cell when a source column is not a
\* valid column name (openpyxl rejects the coordinate).
ScanRaises(sheet, source_cols, start_row) ==
    /\ start_row <= max_row(sheet)
    /\ \E j \in 1..Len(source_cols) : ~ValidColumnName(source_cols[j])

\* The value written whenever there is one, the formula only without it
WrittenValuePrefersValue(cell_data) ==
    IF cell_data.value # NoneValue THEN cell_data.value
    ELSE IF ~Falsy(cell_data.formula)
         THEN StrValue(convert_excel_formula_to_google(str(cell_data.formula)))
         ELSE StrValue(<< >>)

\* A cell without a value written as the text of None
WrittenValueNoneText(cell_data) ==
    IF ~Falsy(cell_data.formula)
    THEN StrValue(convert_excel_formula_to_google(str(cell_data.formula)))
    ELSE IF cell_data.value # NoneValue THEN cell_data.value
         ELSE StrValue(<< "N", "o", "n", "e" >>)

\* lines 414-425: what is written for one cell
WrittenValue(cell_data) ==
    IF ~Falsy(cell_data.formula)
    THEN StrValue(convert_excel_formula_to_google(str(cell_data.formula)))
    ELSE IF cell_data.value # NoneValue THEN cell_data.value ELSE StrValue(<< >>)

\* lines 408-435: values_to_update
ValuesToUpdate(rows_data) ==
    [k \in 1..Len(rows_data) |->
        [j \in 1..Len(rows_data[k]) |-> WrittenValue(rows_data[k][j])]]

\* lines 427-433: the entries of formats_to_apply of one row, cells j..last
RECURSIVE RowFormats(_, _, _, _)
RowFormats(row_cells, target_cols, current_google_row, j) ==
    IF j > Len(row_cells) THEN << >>
    ELSE LET rest == RowFormats(row_cells, target_cols, current_google_row, j + 1)
         IN IF row_cells[j].formatting # NoFormat
            THEN << [row |-> current_google_row,
                     col |-> column_index_from_string(target_cols[j]),
                     format |-> row_cells[j].formatting] >> \o rest
            ELSE rest

\* lines 408-436: formats_to_apply, rows idx..last (idx counts from 0)
RECURSIVE FormatsToApply(_, _, _, _)
FormatsToApply(rows_data, target_cols, start_row, idx) ==
    IF idx >= Len(rows_data) THEN << >>
    ELSE RowFormats(rows_data[idx + 1], target_cols, start_row + idx, 1)
         \o FormatsToApply(rows_data, target_cols, start_row, idx + 1)

\* line 428 raises ValueError when a formatted cell's target column is not a
\* valid column name
BuildRaises(rows_data, target_cols) ==
    \E k \in 1..Len(rows_data) : \E j \in 1..Len(rows_data[k]) :
        rows_data[k][j].formatting # NoFormat /\ ~ValidColumnName(target_cols[j])

\* line 448 raises ValueError when a target column is not a valid column name
WriteRaises(target_cols) ==
    \E j \in 1..Len(target_cols) : ~ValidColumnName(target_cols[j])

\* A row filled from its left end, whatever the target columns are
PlaceValuesDense(row_values, row, index_map, j) ==
    [c \in 1..Len(row_values) |-> IF c <= Len(row) THEN row[c] ELSE row_values[c]]

\* lines 461-463: one row of formatted_values, filled for the cells j..last
RECURSIVE PlaceValues(_, _, _, _)
PlaceValues(row_values, row, index_map, j) ==
    IF j > Len(row) \/ j > Len(index_map) THEN row_values
    ELSE PlaceValues([row_values EXCEPT ![index_map[j] + 1] = row[j]], row, index_map, j + 1)

\* A range that starts at row 1 of the destination
TargetRangeFromTop(min_col, max_col, start_row, n) ==
    [start_col |-> get_column_letter(min_col), start_row |-> 1,
     end_col |-> get_column_letter(max_col), end_row |-> n]

\* lines 451-454: target_range for n rows of values
TargetRange(min_col, max_col, start_row, n) ==
    [start_col |-> get_column_letter(min_col),
     start_row |-> start_row,
     end_col |-> get_column_letter(max_col),
     end_row |-> start_row + n - 1]

\* lines 448-464: target_range and formatted_values
WritePlan(target_cols, values_to_update, start_row) ==
    LET col_numbers == [j \in 1..Len(target_cols) |-> column_index_from_string(target_cols[j])]
        min_col == SeqMin(col_numbers)
        max_col == SeqMax(col_numbers)
        num_cols == max_col - min_col + 1
        index_map == [j \in 1..Len(target_cols) |-> col_numbers[j] - min_col]
    IN [target_range |-> TargetRange(min_col, max_col, start_row, Len(values_to_update)),
        formatted_values |->
            [k \in 1..Len(values_to_update) |->
                PlaceValues([c \in 1..num_cols |-> StrValue(<< >>)],
                            values_to_update[k], index_map, 1)]]

UpdateCall(target_range, formatted_values) ==
    [op |-> "update", target_range |-> target_range, values |-> formatted_values]

\* One update call for each row of values
UpdateCallsPerRow(target_cols, values_to_update, start_row) ==
    [k \in 1..Len(values_to_update) |->
        LET plan == WritePlan(target_cols, << values_to_update[k] >>, start_row + k - 1)
        IN UpdateCall(plan.target_range, plan.formatted_values)]

\* lines 469-473: the calls of google_worksheet.update the write makes
UpdateCalls(target_cols, values_to_update, start_row) ==
    LET plan == WritePlan(target_cols, values_to_update, start_row)
    IN << UpdateCall(plan.target_range, plan.formatted_values) >>

\* A request whose range counts rows and columns from 1
FormatRequestOneBased(format_data, sheet_id) ==
    [sheetId |-> sheet_id,
     startRowIndex |-> format_data.row,
     endRowIndex |-> format_data.row + 1,
     startColumnIndex |-> format_data.col,
     endColumnIndex |-> format_data.col + 1,
     userEnteredFormat |-> format_data.format]

\* lines 485-507: the updateCells request of one entry of formats_to_apply
FormatRequest(format_data, sheet_id) ==
    [sheetId |-> sheet_id,
     startRowIndex |-> format_data.row - 1,
     endRowIndex |-> format_data.row,
     startColumnIndex |-> format_data.col - 1,
     endColumnIndex |-> format_data.col,
     userEnteredFormat |-> format_data.format]

FormatRequests(formats_to_apply, sheet_id) ==
    [n \in 1..Len(formats_to_apply) |-> FormatRequest(formats_to_apply[n], sheet_id)]

\* line 509
batch_size == 500

\* A batch that holds every request from i onward
BatchToEnd(format_requests, i) ==
    SubSeq(format_requests, i + 1, Len(format_requests))

\* line 513: format_requests[i:i + batch_size], i counting from 0
Batch(format_requests, i) ==
    SubSeq(format_requests, i + 1,
           IF i + batch_size < Len(format_requests) THEN i + batch_size
           ELSE Len(format_requests))

(***************************************************************************)
(* State                                                                   *)
(***************************************************************************)
\* One call of a resolver on a sheet with an empty cache
VARIABLES
    rKind,      \* which resolver is called
    rHeader,    \* row 1 of the sheet passed
    rCols,      \* the list of specifiers passed
    rRes,       \* the outcome of the call
    rPc         \* "call" before the call, "done" after it

resolveVars == << rKind, rHeader, rCols, rRes, rPc >>

\* One call of convert_excel_formula_to_google
VARIABLES
    tFormula,   \* the string passed
    tResult,    \* the string returned
    tPc         \* "call" before the call, "done" after it

translateVars == << tFormula, tResult, tPc >>

TranslateIdle ==
    /\ tFormula = << >>
    /\ tResult = << >>
    /\ tPc = "idle"

\* One run of WorkerThread.run (src/app_logic.py)
VARIABLES
    mode,       \* self.mode
    terminal,   \* the signals finished_successfully and error_occurred emitted
    wPc         \* where run is

workerVars == << mode, terminal, wPc >>

WorkerIdle ==
    /\ mode = "single"
    /\ terminal = << >>
    /\ wPc = "idle"

\* One call of ExcelToGoogleSheets._copy_sheet_data_fast (src/processor.py);
\* its arguments and its column lists are the variables of the same names
\* of copy_sheet_data
VARIABLES
    excel_data,     \* the rows collected for the write
    chunk_idx,      \* the loop variable of _copy_sheet_data_chunked
    fPc             \* where _copy_sheet_data_fast is

fastVars == << excel_data, chunk_idx, fPc >>

FastIdle ==
    /\ excel_data = << >>
    /\ chunk_idx = 0
    /\ fPc = "idle"

\* The resolvers' caches and the sheet objects of the process
VARIABLES
    sheets,         \* the sheet objects created so far: kind, id(), row 1, alive
    excel_cache,    \* resolve_excel_columns._header_cache
    google_cache,   \* resolve_google_columns._header_cache
    lastCall,       \* the latest resolver call: sheet, specifiers, outcome
    prevCall        \* the resolver call before it

cacheVars == << sheets, excel_cache, google_cache, lastCall, prevCall >>

NoCall == [sheet |-> 0, cols |-> << >>, res |-> Returned(<< >>)]

ResolveIdle ==
    /\ rKind = "excel"
    /\ rHeader = << >>
    /\ rCols = << >>
    /\ rRes = Returned(<< >>)
    /\ rPc = "idle"

CacheIdle ==
    /\ sheets = << >>
    /\ excel_cache = EmptyDict
    /\ google_cache = EmptyDict
    /\ lastCall = NoCall
    /\ prevCall = NoCall

\* One run of copy_sheet_data: its arguments, its locals, and what it did
VARIABLES
    excel_sheet,            \* argument: data_only of its workbook, id(), rows
    excel_sheet_values,     \* argument: given or None, data_only of its workbook
    google_worksheet,       \* argument: id(), row 1, worksheet.id
    column_mapping,         \* argument: the source and target specifier lists
    start_row,              \* argument
    pc,                     \* the stage copy_sheet_data is at
    source_cols,
    target_cols,
    rows_data,
    skipped_rows,
    values_to_update,
    formats_to_apply,
    batch_i,                \* i of the loop over the formatting batches
    calls,                  \* the reads and the API calls made, in order
    log,                    \* the warnings and errors given to log_callback
    outcome                 \* the value returned or the exception raised

copyArgs == << excel_sheet, excel_sheet_values, google_worksheet, column_mapping, start_row >>

copyLocals ==
    << source_cols, target_cols, rows_data, skipped_rows, values_to_update,
       formats_to_apply, batch_i >>

copyVars == << copyArgs, pc, copyLocals, calls, log, outcome >>

NoOutcome == [kind |-> "none", value |-> 0, err |-> ""]
ReturnOf(n) == [kind |-> "return", value |-> n, err |-> ""]
RaiseOf(err) == [kind |-> "raise", value |-> 0, err |-> err]

NoSheet == [data_only |-> FALSE, id |-> 0, rows |-> << >>]
NoValuesSheet == [given |-> FALSE, data_only |-> FALSE]
NoWorksheet == [id |-> 0, header |-> << >>, sheet_id |-> 0]

FreshLocals ==
    /\ source_cols = << >>
    /\ target_cols = << >>
    /\ rows_data = << >>
    /\ skipped_rows = << >>
    /\ values_to_update = << >>
    /\ formats_to_apply = << >>
    /\ batch_i = 0

CopyIdle ==
    /\ excel_sheet = NoSheet
    /\ excel_sheet_values = NoValuesSheet
    /\ google_worksheet = NoWorksheet
    /\ column_mapping = [source |-> << >>, target |-> << >>]
    /\ start_row = 1
    /\ pc = "idle"
    /\ FreshLocals
    /\ calls = << >>
    /\ log = << >>
    /\ outcome = NoOutcome

\* One run of ExcelToGoogleSheets.process_excel_file
VARIABLES
    excel_path_exists,      \* os.path.exists(excel_path)
    wb_sheetnames,          \* the sheet names of the workbook at excel_path
    google_sheet,           \* the worksheet titles of the destination spreadsheet
    sheet_mapping,          \* config.sheet_mapping, in the order of its items()
    config,                 \* config.column_mapping and config.start_row
    file_mappings,          \* the argument of process_multiple_excel_files
    files,                  \* the file at each excel_path: absent, or its sheet names
    ppc,                    \* where process_excel_file is
    entry_i,                \* the entry of sheet_mapping the loop is at
    processed_sheets,
    workbooks_open,         \* wb_formulas and wb_values are loaded and not closed
    progress,               \* the calls of progress_callback
    process_log,            \* the warnings and errors process_excel_file logs
    attempts                \* the finished calls of copy_sheet_data

procInputs ==
    << excel_path_exists, wb_sheetnames, google_sheet, sheet_mapping, config,
       file_mappings, files >>

procVars ==
    << procInputs, ppc, entry_i, processed_sheets, workbooks_open, progress,
       process_log, attempts >>

ProcessIdle ==
    /\ excel_path_exists = FALSE
    /\ wb_sheetnames = { }
    /\ google_sheet = { }
    /\ sheet_mapping = << >>
    /\ config = [column_mapping |-> [source |-> << >>, target |-> << >>], start_row |-> 1]
    /\ file_mappings = << >>
    /\ files = << >>
    /\ ppc = "idle"
    /\ entry_i = 0
    /\ processed_sheets = 0
    /\ workbooks_open = FALSE
    /\ progress = << >>
    /\ process_log = << >>
    /\ attempts = << >>

(***************************************************************************)
(* One resolver call: the inputs are drawn by InitResolve, the call is one *)
(* step.                                                                   *)
(***************************************************************************)
\* resolve_excel_columns(sheet, columns), first call for this sheet
resolve_excel_columns ==
    /\ rPc = "call"
    /\ rKind = "excel"
    /\ rRes' = CachedResolve(EmptyDict, "excel", 1, rHeader, rCols)
    /\ rPc' = "done"
    /\ UNCHANGED << rKind, rHeader, rCols >>
    /\ UNCHANGED << translateVars, workerVars, fastVars, cacheVars, copyVars, procVars >>

\* resolve_google_columns(worksheet, columns), first call for this worksheet
resolve_google_columns ==
    /\ rPc = "call"
    /\ rKind = "google"
    /\ rRes' = CachedResolve(EmptyDict, "google", 1, rHeader, rCols)
    /\ rPc' = "done"
    /\ UNCHANGED << rKind, rHeader, rCols >>
    /\ UNCHANGED << translateVars, workerVars, fastVars, cacheVars, copyVars, procVars >>

(***************************************************************************)
(* Resolver calls over the life of the process: sheet objects are created  *)
(* and freed, and id() of a new object may equal id() of a freed one       *)
(* (CPython: "two objects with non-overlapping lifetimes may have the same *)
(* id() value").                                                           *)
(***************************************************************************)
\* The sheet objects created in one run of the model
MaxSheets == 2

\* The values id() takes
NumIds == 2

Ids == 1..NumIds

LiveIds == { sheets[h].id : h \in { k \in 1..Len(sheets) : sheets[k].alive } }

\* Row 1 of the sheets, and the specifier lists, of the calls of SpecCache
ProbeHeaders(kind) ==
    { << StrValue(T_xy), StrValue(T_Name), StrValue(T_Qty) >>,
      << StrValue(T_Qty), EmptyHeader(kind), StrValue(T_XY_padded) >> }

ProbeLists == { << T_xy >>, << << "A" >>, T_Qty >> }

\* A workbook is loaded or a worksheet fetched: a new sheet object
NewSheet ==
    /\ Len(sheets) < MaxSheets
    /\ \E kind \in SheetKinds, i \in Ids \ LiveIds :
         \E header \in ProbeHeaders(kind) :
            sheets' = Append(sheets, [kind |-> kind, id |-> i, header |-> header, alive |-> TRUE])
    /\ UNCHANGED << excel_cache, google_cache, lastCall, prevCall >>
    /\ UNCHANGED << resolveVars, translateVars, workerVars, fastVars, copyVars, procVars >>

\* The last reference to a sheet object is dropped
FreeSheet ==
    /\ \E h \in 1..Len(sheets) :
         /\ sheets[h].alive
         /\ sheets' = [sheets EXCEPT ![h].alive = FALSE]
    /\ UNCHANGED << excel_cache, google_cache, lastCall, prevCall >>
    /\ UNCHANGED << resolveVars, translateVars, workerVars, fastVars, copyVars, procVars >>

CallRecord(h, cols, res) == [sheet |-> h, cols |-> cols, res |-> res]

\* resolve_excel_columns(sheet, columns) on a live openpyxl sheet
ResolveExcel ==
    /\ \E h \in 1..Len(sheets), cols \in ProbeLists :
        /\ sheets[h].alive
        /\ sheets[h].kind = "excel"
        /\ excel_cache' = CacheAfter(excel_cache, "excel", sheets[h].id, sheets[h].header)
        /\ lastCall' = CallRecord(h, cols,
                          CachedResolve(excel_cache, "excel", sheets[h].id, sheets[h].header, cols))
    /\ prevCall' = lastCall
    /\ UNCHANGED << sheets, google_cache >>
    /\ UNCHANGED << resolveVars, translateVars, workerVars, fastVars, copyVars, procVars >>

\* resolve_google_columns(worksheet, columns) on a live gspread worksheet
ResolveGoogle ==
    /\ \E h \in 1..Len(sheets), cols \in ProbeLists :
        /\ sheets[h].alive
        /\ sheets[h].kind = "google"
        /\ google_cache' = CacheAfter(google_cache, "google", sheets[h].id, sheets[h].header)
        /\ lastCall' = CallRecord(h, cols,
                          CachedResolve(google_cache, "google", sheets[h].id, sheets[h].header, cols))
    /\ prevCall' = lastCall
    /\ UNCHANGED << sheets, excel_cache >>
    /\ UNCHANGED << resolveVars, translateVars, workerVars, fastVars, copyVars, procVars >>

\* clear_column_cache()
clear_column_cache ==
    /\ excel_cache' = EmptyDict
    /\ google_cache' = EmptyDict
    /\ UNCHANGED << sheets, lastCall, prevCall >>
    /\ UNCHANGED << resolveVars, translateVars, workerVars, fastVars, copyVars, procVars >>

(***************************************************************************)
(* copy_sheet_data, one action per stage                                   *)
(***************************************************************************)
\* The outcomes of an API call the model draws from
UpdateOutcomes == { "ok", "APIError" }
BatchOutcomes == { "ok", "Quota exceeded", "APIError" }

CopyRaise(err) ==
    /\ pc' = "raised"
    /\ outcome' = RaiseOf(err)

CopyReturn(n) ==
    /\ pc' = "returned"
    /\ outcome' = ReturnOf(n)

\* lines 281-289: the workbook-kind guard
CopyGuard ==
    /\ pc = "guard"
    /\ IF GuardError(excel_sheet, excel_sheet_values) # ""
       THEN /\ CopyRaise(GuardError(excel_sheet, excel_sheet_values))
            /\ UNCHANGED log
       ELSE /\ pc' = "resolve_source"
            /\ log' = IF excel_sheet_values.given THEN log
                      ELSE Append(log, "warning: no cached formula values")
            /\ UNCHANGED outcome
    /\ UNCHANGED << copyArgs, copyLocals, calls >>
    /\ UNCHANGED << resolveVars, translateVars, workerVars, fastVars, cacheVars, procVars >>

\* line 291: source_cols = resolve_excel_columns(excel_sheet, ...); row 1 of
\* the sheet is read when the cache has no entry for id(excel_sheet)
CopyResolveSource ==
    /\ pc = "resolve_source"
    /\ LET res == CachedResolve(excel_cache, "excel", excel_sheet.id,
                                HeaderOf(excel_sheet), column_mapping.source)
       IN /\ excel_cache' = CacheAfter(excel_cache, "excel", excel_sheet.id,
                                       HeaderOf(excel_sheet))
          /\ calls' = IF excel_sheet.id \in DOMAIN excel_cache THEN calls
                      ELSE Append(calls, [op |-> "read_source_row_1"])
          /\ IF res.ok
             THEN /\ source_cols' = res.cols
                  /\ pc' = "resolve_target"
                  /\ UNCHANGED outcome
             ELSE /\ CopyRaise(res.err)
                  /\ UNCHANGED source_cols
    /\ UNCHANGED << copyArgs, target_cols, rows_data, skipped_rows, values_to_update,
                    formats_to_apply, batch_i, log >>
    /\ UNCHANGED << sheets, google_cache, lastCall, prevCall >>
    /\ UNCHANGED << resolveVars, translateVars, workerVars, fastVars, procVars >>

\* line 292: target_cols = resolve_google_columns(google_worksheet, ...);
\* worksheet.row_values(1) is called when the cache has no entry for
\* id(google_worksheet)
CopyResolveTarget ==
    /\ pc = "resolve_target"
    /\ LET res == CachedResolve(google_cache, "google", google_worksheet.id,
                                google_worksheet.header, column_mapping.target)
       IN /\ google_cache' = CacheAfter(google_cache, "google", google_worksheet.id,
                                        google_worksheet.header)
          /\ calls' = IF google_worksheet.id \in DOMAIN google_cache THEN calls
                      ELSE Append(calls, [op |-> "row_values"])
          /\ IF res.ok
             THEN /\ target_cols' = res.cols
                  /\ pc' = "check_len"
                  /\ UNCHANGED outcome
             ELSE /\ CopyRaise(res.err)
                  /\ UNCHANGED target_cols
    /\ UNCHANGED << copyArgs, source_cols, rows_data, skipped_rows, values_to_update,
                    formats_to_apply, batch_i, log >>
    /\ UNCHANGED << sheets, excel_cache, lastCall, prevCall >>
    /\ UNCHANGED << resolveVars, translateVars, workerVars, fastVars, procVars >>

\* A length check that lets every pair of lists through
LengthsNeverDiffer == FALSE

\* lines 294-295: the two resolved lists must have the same length
LengthsDiffer == Len(source_cols) # Len(target_cols)

CopyCheckLen ==
    /\ pc = "check_len"
    /\ IF LengthsDiffer
       THEN CopyRaise("ValueError")
       ELSE /\ pc' = "check_rows"
            /\ UNCHANGED outcome
    /\ UNCHANGED << copyArgs, copyLocals, calls, log >>
    /\ UNCHANGED << resolveVars, translateVars, workerVars, fastVars, cacheVars, procVars >>

\* lines 297-324: nothing to copy when the sheet ends before start_row
CopyCheckRows ==
    /\ pc = "check_rows"
    /\ IF max_row(excel_sheet) < start_row
       THEN /\ CopyReturn(0)
            /\ log' = Append(log, "no data to copy")
       ELSE /\ pc' = "scan"
            /\ UNCHANGED << outcome, log >>
    /\ UNCHANGED << copyArgs, copyLocals, calls >>
    /\ UNCHANGED << resolveVars, translateVars, workerVars, fastVars, cacheVars, procVars >>

\* lines 305-319, 331-382: the rows start_row..max_row are read (the loop of
\* lines 305-319 reads some of the same cells first, only to log them)
SkippedReport(skipped) ==
    IF skipped = << >> THEN << >>
    ELSE << [warning |-> "skipped rows", count |-> Len(skipped),
             first |-> SubSeq(skipped, 1, IF Len(skipped) < 10 THEN Len(skipped) ELSE 10)] >>

CopyScan ==
    /\ pc = "scan"
    /\ IF ScanRaises(excel_sheet, source_cols, start_row)
       THEN /\ CopyRaise("ValueError")
            /\ UNCHANGED << rows_data, skipped_rows, calls, log >>
       ELSE LET scan == ScanRows(excel_sheet, excel_sheet_values, source_cols, start_row)
            IN /\ rows_data' = scan.rows_data
               /\ skipped_rows' = scan.skipped_rows
               /\ calls' = calls \o [n \in 1..Len(scan.read) |->
                                        [op |-> "read_source_row", row |-> scan.read[n]]]
               /\ log' = log \o SkippedReport(scan.skipped_rows)
               /\ pc' = "build"
               /\ UNCHANGED outcome
    /\ UNCHANGED << copyArgs, source_cols, target_cols, values_to_update,
                    formats_to_apply, batch_i >>
    /\ UNCHANGED << resolveVars, translateVars, workerVars, fastVars, cacheVars, procVars >>

\* lines 405-441: values_to_update and formats_to_apply
CopyBuild ==
    /\ pc = "build"
    /\ IF BuildRaises(rows_data, target_cols)
       THEN /\ CopyRaise("ValueError")
            /\ UNCHANGED << values_to_update, formats_to_apply, log >>
       ELSE /\ values_to_update' = ValuesToUpdate(rows_data)
            /\ formats_to_apply' = FormatsToApply(rows_data, target_cols, start_row, 0)
            /\ IF rows_data = << >>
               THEN /\ CopyReturn(0)
                    /\ log' = Append(log, "no data to write")
               ELSE /\ pc' = "write"
                    /\ UNCHANGED << outcome, log >>
    /\ UNCHANGED << copyArgs, source_cols, target_cols, rows_data, skipped_rows,
                    batch_i, calls >>
    /\ UNCHANGED << resolveVars, translateVars, workerVars, fastVars, cacheVars, procVars >>

\* lines 447-476, 546-549: the write of the values

CopyWrite ==
    /\ pc = "write"
    /\ IF WriteRaises(target_cols)
       THEN /\ CopyRaise("ValueError")
            /\ log' = Append(log, "error: writing to Google Sheets")
            /\ UNCHANGED calls
       ELSE /\ calls' = calls \o UpdateCalls(target_cols, values_to_update, start_row)
            /\ \E api \in UpdateOutcomes :
                 IF api = "ok"
                 THEN /\ pc' = IF formats_to_apply # << >> THEN "format" ELSE "return"
                      /\ UNCHANGED << outcome, log >>
                 ELSE /\ CopyRaise(api)
                      /\ log' = Append(log, "error: writing to Google Sheets")
    /\ UNCHANGED << copyArgs, copyLocals >>
    /\ UNCHANGED << resolveVars, translateVars, workerVars, fastVars, cacheVars, procVars >>

\* lines 512-537: one pass of the loop over the formatting batches
BatchCall(batch) == [op |-> "batch_update", requests |-> batch]

\* A loop that goes on with the batches after one of them raised
KeepFormatting(batch_error) == "format"

\* lines 526-537: a batch that raised ends the loop over the batches, by the
\* break of the quota case or by the outer except clause, and the function
\* goes on to its return
AfterBatchError(batch_error) == "return"

CopyFormatBatch ==
    /\ pc = "format"
    /\ LET format_requests == FormatRequests(formats_to_apply, google_worksheet.sheet_id)
       IN /\ calls' = Append(calls, BatchCall(Batch(format_requests, batch_i)))
          /\ \E api \in BatchOutcomes :
                CASE api = "ok" ->
                        /\ batch_i' = batch_i + batch_size
                        /\ pc' = IF batch_i + batch_size < Len(format_requests)
                                 THEN "format" ELSE "return"
                        /\ UNCHANGED log
                  [] api = "Quota exceeded" ->
                        /\ log' = Append(log, "warning: API limit, rest of formatting skipped")
                        /\ pc' = AfterBatchError(api)
                        /\ UNCHANGED batch_i
                  [] OTHER ->
                        /\ log' = Append(log, "warning: not all formatting applied")
                        /\ pc' = AfterBatchError(api)
                        /\ UNCHANGED batch_i
    /\ UNCHANGED << copyArgs, source_cols, target_cols, rows_data, skipped_rows,
                    values_to_update, formats_to_apply, outcome >>
    /\ UNCHANGED << resolveVars, translateVars, workerVars, fastVars, cacheVars, procVars >>

\* The number of rows of the span that was scanned
rows_in_span == max_row(excel_sheet) - start_row + 1

\* lines 328, 368-371: the counter goes up by one with every row appended to
\* rows_data
rows_with_values == Len(rows_data)

\* lines 539-544: return rows_with_values
CopyDone ==
    /\ pc = "return"
    /\ CopyReturn(rows_with_values)
    /\ UNCHANGED << copyArgs, copyLocals, calls, log >>
    /\ UNCHANGED << resolveVars, translateVars, workerVars, fastVars, cacheVars, procVars >>

(***************************************************************************)
(* Sheets and mappings copy_sheet_data is run on                           *)
(***************************************************************************)
TextCell(text, bold, size) ==
    [value |-> StrValue(text), data_type |-> "s", formula |-> NoneValue,
     cached |-> StrValue(text), bold |-> bold, size |-> size]

NumberCell(text) ==
    [value |-> NumValue(text), data_type |-> "n", formula |-> NoneValue,
     cached |-> NumValue(text), bold |-> FALSE, size |-> 0]

\* A formula cell: its value is the formula text in the workbook that keeps
\* formulas, and the cached result in the values workbook
FormulaCell(text, cached) ==
    [value |-> StrValue(text), data_type |-> "f", formula |-> NoneValue,
     cached |-> cached, bold |-> FALSE, size |-> 11]

T_hi == << "h", "i" >>
T_sum == << "=" >> \o replacements[13][1] \o << "(", "B", "1", ")" >>

RowHeader == [hidden |-> FALSE, cells |-> << TextCell(T_xy, TRUE, 11), TextCell(T_Qty, FALSE, 0) >>]
RowEmpty == [hidden |-> FALSE, cells |-> << EmptyCell, EmptyCell >>]
RowBlank == [hidden |-> TRUE, cells |-> << TextCell(<< " " >>, FALSE, 11), TextCell(<< >>, FALSE, 0) >>]
RowData == [hidden |-> FALSE, cells |-> << TextCell(T_hi, FALSE, 0), NumberCell(<< "0" >>) >>]
RowFormula == [hidden |-> TRUE, cells |-> << EmptyCell, FormulaCell(T_sum, NoneValue) >>]

\* A cell flagged as a formula whose text no attribute holds
UnreadableFormulaCell ==
    [value |-> NoneValue, data_type |-> "f", formula |-> NoneValue,
     cached |-> NoneValue, bold |-> FALSE, size |-> 0]

RowUnreadable == [hidden |-> FALSE, cells |-> << EmptyCell, UnreadableFormulaCell >>]
RowComputed ==
    [hidden |-> FALSE,
     cells |-> << FormulaCell(T_sum, NumValue(<< "7" >>)), TextCell(T_hi, FALSE, 0) >>]

\* The rows of the sheets with formula cells
FormulaRowKinds == { RowEmpty, RowUnreadable, RowComputed }

RowKinds == { RowHeader, RowEmpty, RowBlank, RowData, RowFormula }

\* The sheets have MaxRow rows
MaxRow == 3

SheetRows == [1..MaxRow -> RowKinds]
FormulaSheetRows == [1..MaxRow -> FormulaRowKinds]

Mapping(source, target) == [source |-> source, target |-> target]

ColumnMappings ==
    { Mapping(<< << "A" >> >>, << << "B" >> >>),
      Mapping(<< << "A" >>, << "B" >> >>, << << "C" >>, << "A" >> >>),
      Mapping(<< << "A", "-", "B" >> >>, << << "B" >>, << "D" >> >>),
      Mapping(<< << "A" >>, << "B" >> >>, << << "B" >>, << "B" >> >>),
      Mapping(<< << "A" >>, << "B" >> >>, << << "A" >> >>),
      Mapping(<< T_xy >>, << << "2" >> >>),
      Mapping(<< << "B" >> >>, << T_name >>),
      Mapping(<< T_name >>, << << "A" >> >>),
      Mapping(<< T_zz9 >>, << << "A" >> >>) }

\* The workbooks the two sheets come from: data_only of the source sheet's
\* workbook, and the values sheet (absent, or data_only of its workbook)
WorkbookKinds ==
    { [sheet |-> FALSE, values |-> [given |-> FALSE, data_only |-> FALSE]],
      [sheet |-> FALSE, values |-> [given |-> TRUE, data_only |-> TRUE]],
      [sheet |-> FALSE, values |-> [given |-> TRUE, data_only |-> FALSE]],
      [sheet |-> TRUE, values |-> [given |-> FALSE, data_only |-> FALSE]] }

DestinationHeader == << StrValue(T_xy), StrValue(T_Name), StrValue(T_Qty) >>


(***************************************************************************)
(* Sheets whose formatting takes more than one batch                       *)
(***************************************************************************)
\* The formatting requests of a sheet fill up to MaxBatches batches
MaxBatches == 2

\* The wide sheets have WideColumns columns, each cell with a format
WideColumns == 36

WideLetters == [k \in 1..WideColumns |-> get_column_letter(k)]

BoldRow == [hidden |-> FALSE, cells |-> [k \in 1..WideColumns |-> TextCell(T_hi, TRUE, 11)]]

\* The numbers of data rows: the requests fill b batches exactly, or leave
\* one row's requests for the batch after
BatchRowCounts ==
    { (b * batch_size) \div WideColumns : b \in 1..MaxBatches }
        \cup { ((b - 1) * batch_size) \div WideColumns + 1 : b \in 2..MaxBatches }

\* A header row and n data rows
WideSheet(n) == [k \in 1..(n + 1) |-> BoldRow]
(***************************************************************************)
(* ExcelToGoogleSheets.process_excel_file (src/business/processor.py)      *)
(***************************************************************************)
\* config.sheet_mapping has MaxEntries entries
MaxEntries == 2

\* The source sheet of entry k is named k; the destination titles
DestinationTitles == { "G1", "G2" }

\* The sheet named name of the workbook loaded with data_only=False; its id()
\* is its own for the life of the workbook
WorkbookSheet(name) ==
    [data_only |-> FALSE,
     id |-> name,
     rows |-> IF name % 2 = 1 THEN << RowHeader, RowData, RowFormula >>
              ELSE << RowHeader, RowBlank, RowData >>]

\* Row 1 of the destination worksheet titled title
HeaderOfDestination(title) ==
    IF title = "G1" THEN DestinationHeader
    ELSE << StrValue(T_Qty), StrValue(T_xy) >>

\* The addresses a gspread worksheet object can be created at
GoogleIds == { 21, 22 }

\* A cache entry left by an earlier run
StaleCache == (1 :> (T_zz9 :> << "C" >>))

SheetMappings ==
    { m \in [1..MaxEntries -> [excel_sheet_name : 1..MaxEntries, google_sheet_name : DestinationTitles]] :
        \A k \in 1..MaxEntries : m[k].excel_sheet_name = k }

\* A run long enough for the worksheet object of its first entry to be freed
\* and its address taken again
LongRun == MaxEntries + 1

LongSheetMappings ==
    { m \in [1..LongRun -> [excel_sheet_name : 1..LongRun, google_sheet_name : DestinationTitles]] :
        \A k \in 1..LongRun : m[k].excel_sheet_name = k }

Configs ==
    { [column_mapping |-> Mapping(<< << "A" >>, << "B" >> >>, << << "C" >>, << "A" >> >>), start_row |-> 2],
      [column_mapping |-> Mapping(<< << "B" >> >>, << T_xy >>), start_row |-> 2],
      [column_mapping |-> Mapping(<< << "A" >>, << "B" >> >>, << << "A" >> >>), start_row |-> 1] }

LogEntry(level, entry, what) == [level |-> level, entry |-> entry, what |-> what]

\* line 204
total_sheets == Len(sheet_mapping)

\* A report that gives the count as it was before the entry
ReportBeforeCount(total, name) ==
    /\ processed_sheets' = processed_sheets + 1
    /\ progress' = Append(progress, [current |-> processed_sheets,
                                     total |-> total,
                                     name |-> name])

\* lines 213-215, 231-233, 250-252, 256-258 (and 296-298, 316-318, 337-339,
\* 361-363 of process_multiple_excel_files): the entry is counted and
\* progress_callback(processed, total, name) is called
Report(total, name) ==
    /\ processed_sheets' = processed_sheets + 1
    /\ progress' = Append(progress, [current |-> processed_sheets + 1,
                                     total |-> total,
                                     name |-> name])

\* A cache that keeps its entries
KeptCache(cache) == cache

\* clear_column_cache() (src/logic/sheet_utils.py:552-556) leaves a resolver's
\* _header_cache empty
ClearedCache(cache) == EmptyDict

\* lines 191-205: the file check, clear_column_cache() and the two loads
ProcStart ==
    /\ ppc = "start"
    /\ IF ~excel_path_exists
       THEN /\ ppc' = "failed"
            /\ process_log' = Append(process_log, LogEntry("critical", 0, "FileNotFoundError"))
            /\ UNCHANGED << excel_cache, google_cache, entry_i, workbooks_open >>
       ELSE /\ excel_cache' = ClearedCache(excel_cache)
            /\ google_cache' = ClearedCache(google_cache)
            /\ workbooks_open' = TRUE
            /\ entry_i' = 1
            /\ ppc' = "loop"
            /\ UNCHANGED process_log
    /\ UNCHANGED << procInputs, processed_sheets, progress, attempts >>
    /\ UNCHANGED << sheets, lastCall, prevCall >>
    /\ UNCHANGED << resolveVars, translateVars, workerVars, fastVars, copyVars >>

\* line 211
SourceSheetAbsent(excel_sheet_name) == excel_sheet_name \notin wb_sheetnames

\* A lookup that makes the worksheet it does not find
WorksheetOrNew(titles, google_sheet_name) ==
    IF google_sheet_name \in titles
    THEN [found |-> TRUE, header |-> HeaderOfDestination(google_sheet_name)]
    ELSE [found |-> TRUE, header |-> << >>]

\* line 228: self.google_sheet.worksheet(google_sheet_name), when the API
\* answers; WorksheetNotFound when no worksheet has the title
Worksheet(titles, google_sheet_name) ==
    IF google_sheet_name \in titles
    THEN [found |-> TRUE, header |-> HeaderOfDestination(google_sheet_name)]
    ELSE [found |-> FALSE, header |-> << >>]

\* lines 209-216: the source sheet is not in the workbook
ProcSkipSource ==
    /\ ppc = "loop"
    /\ entry_i <= Len(sheet_mapping)
    /\ SourceSheetAbsent(sheet_mapping[entry_i].excel_sheet_name)
    /\ process_log' = Append(process_log, LogEntry("warning", entry_i, "source sheet not found"))
    /\ Report(total_sheets, sheet_mapping[entry_i].excel_sheet_name)
    /\ entry_i' = entry_i + 1
    /\ UNCHANGED << procInputs, ppc, workbooks_open, attempts >>
    /\ UNCHANGED << resolveVars, translateVars, workerVars, fastVars, cacheVars, copyVars >>

\* lines 217-234, 254-258: the destination worksheet is not found, or the
\* lookup fails otherwise
ProcSkipDestination ==
    /\ ppc = "loop"
    /\ entry_i <= Len(sheet_mapping)
    /\ ~SourceSheetAbsent(sheet_mapping[entry_i].excel_sheet_name)
    /\ \E api \in { "ok", "APIError" } :
          IF api = "ok"
          THEN /\ ~Worksheet(google_sheet, sheet_mapping[entry_i].google_sheet_name).found
               /\ process_log' = Append(process_log,
                                    LogEntry("warning", entry_i, "destination sheet not found"))
          ELSE process_log' = Append(process_log, LogEntry("error", entry_i, api))
    /\ Report(total_sheets, sheet_mapping[entry_i].excel_sheet_name)
    /\ entry_i' = entry_i + 1
    /\ UNCHANGED << procInputs, ppc, workbooks_open, attempts >>
    /\ UNCHANGED << resolveVars, translateVars, workerVars, fastVars, cacheVars, copyVars >>

\* lines 217-243: both sheets are there and copy_sheet_data is called.  The
\* worksheet object is new; the one of the entry before is still referenced
\* while it is made, so the new one is at another address.
ProcCallCopy ==
    /\ ppc = "loop"
    /\ entry_i <= Len(sheet_mapping)
    /\ ~SourceSheetAbsent(sheet_mapping[entry_i].excel_sheet_name)
    /\ LET ws == Worksheet(google_sheet, sheet_mapping[entry_i].google_sheet_name)
       IN /\ ws.found
          /\ \E gid \in GoogleIds \ { google_worksheet.id } :
                google_worksheet' = [id |-> gid, header |-> ws.header, sheet_id |-> 0]
    /\ excel_sheet' = WorkbookSheet(sheet_mapping[entry_i].excel_sheet_name)
    /\ excel_sheet_values' = [given |-> TRUE, data_only |-> TRUE]
    /\ column_mapping' = config.column_mapping
    /\ start_row' = config.start_row
    /\ pc' = "guard"
    /\ source_cols' = << >>
    /\ target_cols' = << >>
    /\ rows_data' = << >>
    /\ skipped_rows' = << >>
    /\ values_to_update' = << >>
    /\ formats_to_apply' = << >>
    /\ batch_i' = 0
    /\ calls' = << >>
    /\ log' = << >>
    /\ outcome' = NoOutcome
    /\ ppc' = "copy"
    /\ UNCHANGED << procInputs, entry_i, processed_sheets, workbooks_open, progress,
                    process_log, attempts >>
    /\ UNCHANGED << resolveVars, translateVars, workerVars, fastVars, cacheVars >>

\* An error of one entry that ends the run
AbortOnError(copy_pc) == IF copy_pc = "raised" THEN "failed" ELSE "loop"

\* lines 245-258: after copy_sheet_data has returned, or after the except
\* clause of the entry has caught what it raised, the loop goes on with
\* the next entry
AfterEntry(copy_pc) == "loop"

\* lines 245-258: copy_sheet_data has returned or raised
ProcAfterCopy ==
    /\ ppc = "copy"
    /\ pc \in { "returned", "raised" }
    /\ process_log' = Append(process_log,
                        IF pc = "returned" THEN LogEntry("info", entry_i, "processed")
                        ELSE LogEntry("error", entry_i, outcome.err))
    /\ attempts' = Append(attempts, [entry |-> entry_i, calls |-> calls, outcome |-> outcome,
                                     log |-> log])
    /\ Report(total_sheets, sheet_mapping[entry_i].excel_sheet_name)
    /\ entry_i' = entry_i + 1
    /\ ppc' = AfterEntry(pc)
    /\ pc' = "idle"
    /\ UNCHANGED << procInputs, workbooks_open >>
    /\ UNCHANGED << copyArgs, copyLocals, calls, log, outcome >>
    /\ UNCHANGED << resolveVars, translateVars, workerVars, fastVars, cacheVars >>

\* lines 260-262: after the last entry the workbooks are closed
ProcFinish ==
    /\ ppc = "loop"
    /\ entry_i > Len(sheet_mapping)
    /\ workbooks_open' = FALSE
    /\ ppc' = "done"
    /\ UNCHANGED << procInputs, entry_i, processed_sheets, progress, process_log, attempts >>
    /\ UNCHANGED << resolveVars, translateVars, workerVars, fastVars, cacheVars, copyVars >>

(***************************************************************************)
(* ExcelToGoogleSheets.process_multiple_excel_files                        *)
(* (src/business/processor.py)                                             *)
(***************************************************************************)
\* The file of entry k is at path k.  A file is absent, or is a workbook
\* with the sheet names given, in the workbook's order.
AbsentFile == [exists |-> FALSE, sheetnames |-> << >>]
WorkbookFile(sheetnames) == [exists |-> TRUE, sheetnames |-> sheetnames]

FileKinds == { AbsentFile, WorkbookFile(<< 1, 2 >>), WorkbookFile(<< 2 >>), WorkbookFile(<< >>) }

\* The addresses an openpyxl sheet object of a newly loaded workbook can be at
SheetAddresses == { 1, 2 }

\* The column mappings of the entries: by column letters, and with a target
\* given by its header
MultiColumnMappings ==
    { Mapping(<< << "A" >>, << "B" >> >>, << << "C" >>, << "A" >> >>),
      Mapping(<< << "B" >> >>, << T_xy >>) }

FileMappings ==
    { m \in [1..MaxEntries -> [excel_path : 1..MaxEntries, excel_sheet : { 1 },
                               google_sheet : DestinationTitles,
                               column_mapping : MultiColumnMappings,
                               start_row : { 2 }]] :
        /\ \A k \in 1..MaxEntries : m[k].excel_path = k
        /\ \A k \in 1..MaxEntries : m[k].column_mapping = m[1].column_mapping }

\* line 308: the sheet named in the mapping is not in the workbook
NamedSheetAbsent(mapping) == \A n \in 1..Len(files[mapping.excel_path].sheetnames) :
                                 files[mapping.excel_path].sheetnames[n] # mapping.excel_sheet

\* lines 308-311, 321: the name of the sheet that is copied: the named one,
\* or the first sheet of the workbook when the named one is absent
SheetToCopy(mapping) ==
    IF NamedSheetAbsent(mapping) THEN files[mapping.excel_path].sheetnames[1]
    ELSE mapping.excel_sheet

\* line 278
total_mappings == Len(file_mappings)

\* lines 275-279: connect_to_google_sheets, which raises when it fails
MultiStart ==
    /\ ppc = "multi_start"
    /\ \E api \in { "ok", "APIError" } :
          IF api = "ok"
          THEN /\ ppc' = "multi_loop"
               /\ entry_i' = 1
               /\ UNCHANGED process_log
          ELSE /\ ppc' = "failed"
               /\ process_log' = Append(process_log, LogEntry("critical", 0, api))
               /\ UNCHANGED entry_i
    /\ UNCHANGED << procInputs, processed_sheets, workbooks_open, progress, attempts >>
    /\ UNCHANGED << resolveVars, translateVars, workerVars, fastVars, cacheVars, copyVars >>

\* The loop is at an entry: line 283 clears both caches first
AtEntry ==
    /\ ppc = "multi_loop"
    /\ entry_i <= Len(file_mappings)
    /\ excel_cache' = ClearedCache(excel_cache)
    /\ google_cache' = ClearedCache(google_cache)
    /\ UNCHANGED << sheets, lastCall, prevCall >>

\* lines 283-299: the file is not there
MultiSkipFile ==
    /\ AtEntry
    /\ ~files[file_mappings[entry_i].excel_path].exists
    /\ process_log' = Append(process_log, LogEntry("warning", entry_i, "file not found"))
    /\ Report(total_mappings, file_mappings[entry_i].excel_path)
    /\ entry_i' = entry_i + 1
    /\ UNCHANGED << procInputs, ppc, workbooks_open, attempts >>
    /\ UNCHANGED << resolveVars, translateVars, workerVars, fastVars, copyVars >>

\* lines 283-319: the workbook has no sheet at all
MultiSkipNoSheets ==
    /\ AtEntry
    /\ files[file_mappings[entry_i].excel_path].exists
    /\ files[file_mappings[entry_i].excel_path].sheetnames = << >>
    /\ process_log' = Append(process_log, LogEntry("warning", entry_i, "no sheets in the file"))
    /\ Report(total_mappings, file_mappings[entry_i].excel_path)
    /\ entry_i' = entry_i + 1
    /\ UNCHANGED << procInputs, ppc, workbooks_open, attempts >>
    /\ UNCHANGED << resolveVars, translateVars, workerVars, fastVars, copyVars >>

\* The workbook of the entry is there and has a sheet to copy
HasSheetToCopy ==
    /\ files[file_mappings[entry_i].excel_path].exists
    /\ files[file_mappings[entry_i].excel_path].sheetnames # << >>

\* lines 283-340, 358-363: the destination worksheet is not found (the
\* workbooks are closed), or the lookup fails otherwise (they are not)
MultiSkipDestination ==
    /\ AtEntry
    /\ HasSheetToCopy
    /\ \E api \in { "ok", "APIError" } :
          IF api = "ok"
          THEN /\ ~Worksheet(google_sheet, file_mappings[entry_i].google_sheet).found
               /\ process_log' =
                     (IF NamedSheetAbsent(file_mappings[entry_i])
                      THEN Append(process_log, LogEntry("info", entry_i, "first sheet used"))
                      ELSE process_log)
                     \o << LogEntry("warning", entry_i, "destination sheet not found") >>
               /\ UNCHANGED workbooks_open
          ELSE /\ process_log' =
                     (IF NamedSheetAbsent(file_mappings[entry_i])
                      THEN Append(process_log, LogEntry("info", entry_i, "first sheet used"))
                      ELSE process_log)
                     \o << LogEntry("error", entry_i, api) >>
               /\ workbooks_open' = TRUE
    /\ Report(total_mappings, file_mappings[entry_i].excel_path)
    /\ entry_i' = entry_i + 1
    /\ UNCHANGED << procInputs, ppc, attempts >>
    /\ UNCHANGED << resolveVars, translateVars, workerVars, fastVars, copyVars >>

\* lines 283-352: the workbooks are loaded, the sheet and the worksheet are
\* there, and copy_sheet_data is called with the mapping's columns and start
\* row.  The two objects are new; the ones of the entry before are still
\* referenced while they are made.
MultiCallCopy ==
    /\ AtEntry
    /\ HasSheetToCopy
    /\ LET mapping == file_mappings[entry_i]
           ws == Worksheet(google_sheet, mapping.google_sheet)
       IN /\ ws.found
          /\ \E gid \in GoogleIds \ { google_worksheet.id } :
                google_worksheet' = [id |-> gid, header |-> ws.header, sheet_id |-> 0]
          /\ \E xid \in SheetAddresses \ { excel_sheet.id } :
                excel_sheet' = [WorkbookSheet(SheetToCopy(mapping)) EXCEPT !.id = xid]
          /\ column_mapping' = mapping.column_mapping
          /\ start_row' = mapping.start_row
          /\ process_log' = IF NamedSheetAbsent(mapping)
                            THEN Append(process_log, LogEntry("info", entry_i, "first sheet used"))
                            ELSE process_log
    /\ excel_sheet_values' = [given |-> TRUE, data_only |-> TRUE]
    /\ pc' = "guard"
    /\ source_cols' = << >>
    /\ target_cols' = << >>
    /\ rows_data' = << >>
    /\ skipped_rows' = << >>
    /\ values_to_update' = << >>
    /\ formats_to_apply' = << >>
    /\ batch_i' = 0
    /\ calls' = << >>
    /\ log' = << >>
    /\ outcome' = NoOutcome
    /\ workbooks_open' = TRUE
    /\ ppc' = "multi_copy"
    /\ UNCHANGED << procInputs, entry_i, processed_sheets, progress, attempts >>
    /\ UNCHANGED << resolveVars, translateVars, workerVars, fastVars >>

\* lines 354-363: copy_sheet_data has returned (the workbooks are closed) or
\* raised (they are not)
MultiAfterCopy ==
    /\ ppc = "multi_copy"
    /\ pc \in { "returned", "raised" }
    /\ process_log' = Append(process_log,
                        IF pc = "returned" THEN LogEntry("info", entry_i, "processed")
                        ELSE LogEntry("error", entry_i, outcome.err))
    /\ workbooks_open' = (pc = "raised")
    /\ attempts' = Append(attempts, [entry |-> entry_i, calls |-> calls, outcome |-> outcome,
                                     log |-> log])
    /\ Report(total_mappings, file_mappings[entry_i].excel_path)
    /\ entry_i' = entry_i + 1
    /\ ppc' = "multi_loop"
    /\ pc' = "idle"
    /\ UNCHANGED procInputs
    /\ UNCHANGED << copyArgs, copyLocals, calls, log, outcome >>
    /\ UNCHANGED << resolveVars, translateVars, workerVars, fastVars, cacheVars >>

\* line 365: after the last entry
MultiFinish ==
    /\ ppc = "multi_loop"
    /\ entry_i > Len(file_mappings)
    /\ ppc' = "done"
    /\ UNCHANGED << procInputs, entry_i, processed_sheets, workbooks_open, progress,
                    process_log, attempts >>
    /\ UNCHANGED << resolveVars, translateVars, workerVars, fastVars, cacheVars, copyVars >>

(***************************************************************************)
(* One call of convert_excel_formula_to_google: the input is drawn by      *)
(* InitTranslate, the call is one step.                                    *)
(***************************************************************************)
\* The text of a call of the function called name with the arguments args
Call(name, args) == << "=" >> \o name \o args

ArgLists == { << "(", "A", "1", ")" >>, << "(", "B", "2", ";", "3", ")" >> }

\* A call of each function of the table
ListedCalls == { Call(replacements[k][1], args) : k \in 1..Len(replacements), args \in ArgLists }

\* Function names that are not keys of the table.  The last one is the
\* localized name of LINEST, in the encoding the keys of the table have in
\* the source file.
T_SQRT == << "S", "Q", "R", "T" >>
T_ABS == << "A", "B", "S" >>
T_LINEST == << "U+2013", "U+00F5", "U+2013", "U+00F2", "U+2013", "U+00F9", "U+2013", "U+00EF", "U+2013", "U+00F4", "U+2013", "U+00F9" >>

UnlistedNames == { T_SQRT, T_ABS, T_LINEST }

UnlistedCalls == { Call(name, args) : name \in UnlistedNames, args \in ArgLists }

\* Strings that do not start with '='
NonFormulas ==
    { << >>, << "h", "e", "l", "l", "o" >>, << "4", "2" >>, << " ", "=", "1" >> }
        \cup { replacements[k][1] \o args : k \in { 13, 20 }, args \in ArgLists }

TranslatorInputs == ListedCalls \cup UnlistedCalls \cup NonFormulas

\* lines 184-222
Translate ==
    /\ tPc = "call"
    /\ tResult' = convert_excel_formula_to_google(tFormula)
    /\ tPc' = "done"
    /\ UNCHANGED tFormula
    /\ UNCHANGED << resolveVars, workerVars, fastVars, cacheVars, copyVars, procVars >>
(***************************************************************************)
(* WorkerThread.run (src/app_logic.py), modes "single" and "batch"         *)
(***************************************************************************)
FinishedSuccessfully == [signal |-> "finished_successfully", message |-> ""]
ErrorOccurred(message) == [signal |-> "error_occurred", message |-> message]

\* lines 74-77: finished_successfully.emit() at the end of the try block, or
\* error_occurred.emit(str(e)) in the except clause
TerminalSignal(raised, message) ==
    IF raised THEN ErrorOccurred(message) ELSE FinishedSuccessfully

\* What the constructor of the processor and, in mode "single", the
\* connection made by run itself can end with
WorkerStartOutcomes == { "ok", "ConfigError", "APIError" }

\* lines 26-58: the processor is made; mode "single" updates the config and
\* connects, then calls process_excel_file; mode "batch" calls
\* process_multiple_excel_files, which connects itself.  An exception ends
\* the run in the except clause.
WorkerStart ==
    /\ wPc = "start"
    /\ \E res \in WorkerStartOutcomes :
          /\ (res = "APIError") => (mode = "single")
          /\ IF res = "ok"
             THEN /\ ppc' = IF mode = "single" THEN "start" ELSE "multi_start"
                  /\ wPc' = "running"
                  /\ UNCHANGED terminal
             ELSE /\ terminal' = Append(terminal, TerminalSignal(TRUE, res))
                  /\ wPc' = "ended"
                  /\ UNCHANGED ppc
    /\ UNCHANGED << mode, procInputs, entry_i, processed_sheets, workbooks_open, progress,
                    process_log, attempts >>
    /\ UNCHANGED << resolveVars, translateVars, fastVars, cacheVars, copyVars >>

\* lines 45-77: the processing function has returned, or has raised after
\* logging its critical error
WorkerEnd ==
    /\ wPc = "running"
    /\ ppc \in { "done", "failed" }
    /\ terminal' = Append(terminal,
                          TerminalSignal(ppc = "failed", process_log[Len(process_log)].what))
    /\ wPc' = "ended"
    /\ UNCHANGED mode
    /\ UNCHANGED << resolveVars, translateVars, fastVars, cacheVars, copyVars, procVars >>
(***************************************************************************)
(* ExcelToGoogleSheets._copy_sheet_data_fast and _copy_sheet_data_chunked  *)
(* (src/processor.py)                                                      *)
(***************************************************************************)
\* _resolve_excel_columns / _resolve_google_columns, one specifier: lines
\* 119-121 (strip, an empty specifier is skipped), 129-132 (a number) and
\* 134-137 (one or two letters).  The specifiers of the model are of these
\* forms; ranges (lines 123-127) and header names (lines 139-146) are not
\* drawn, and any other specifier ends at the raise of line 149.
FastResolveOne(col) ==
    LET col_str == strip(col)
    IN IF col_str = << >> THEN Returned(<< >>)
       ELSE IF isdigit(col_str) THEN Returned(<< get_column_letter(int(col_str)) >>)
       ELSE IF isalpha(col_str) /\ Len(col_str) <= 2 THEN Returned(<< upper(col_str) >>)
       ELSE Raised("ValueError", col)

RECURSIVE FastResolveFrom(_, _)
FastResolveFrom(columns, j) ==
    IF j > Len(columns) THEN Returned(<< >>)
    ELSE LET one == FastResolveOne(columns[j])
             rest == FastResolveFrom(columns, j + 1)
         IN IF ~one.ok THEN one
            ELSE IF ~rest.ok THEN rest
            ELSE Returned(one.cols \o rest.cols)

FastResolveColumns(columns) == FastResolveFrom(columns, 1)

\* lines 384-389: one row of excel_data; a cell without a value gives ''
FastRowData(sheet, cols, row_idx) ==
    [j \in 1..Len(cols) |->
        LET cell_value == CellAt(sheet, cols[j], row_idx).value
        IN IF cell_value # NoneValue THEN str(cell_value) ELSE << >>]

\* lines 386-387: has_data
FastHasData(sheet, cols, row_idx) ==
    \E j \in 1..Len(cols) : CellAt(sheet, cols[j], row_idx).value # NoneValue

\* lines 380-392: excel_data, the rows of start_row..max_row that have data
FastExcelData(sheet, cols, first_row) ==
    LET n == IF max_row(sheet) >= first_row THEN max_row(sheet) - first_row + 1 ELSE 0
        span == [i \in 1..n |-> first_row + i - 1]
        kept == SelectSeq(span, LAMBDA r : FastHasData(sheet, cols, r))
    IN [k \in 1..Len(kept) |-> FastRowData(sheet, cols, kept[k])]

\* line 434
chunk_size == 100

\* lines 403-408 and 440-445: range_name for n rows from first_row on
FastRange(cols, first_row, n) ==
    [start_col |-> cols[1],
     start_row |-> first_row,
     end_col |-> cols[Len(cols)],
     end_row |-> first_row + n - 1]

\* A chunk that starts at the first row of the copy
ChunkStartRowFixed(idx) == start_row

\* line 442: start_row = self.config.start_row + chunk_idx
ChunkStartRow(idx) == start_row + idx

\* line 438: excel_data[chunk_idx:chunk_idx + chunk_size]
ChunkData(data, idx) ==
    SubSeq(data, idx + 1, IF idx + chunk_size < Len(data) THEN idx + chunk_size ELSE Len(data))

FastUnchanged ==
    /\ UNCHANGED << excel_sheet, excel_sheet_values, google_worksheet, column_mapping,
                    start_row, pc, rows_data, skipped_rows, values_to_update,
                    formats_to_apply, batch_i >>
    /\ UNCHANGED << resolveVars, translateVars, workerVars, cacheVars, procVars >>

\* lines 366-372: the two column lists are resolved and compared
FastResolve ==
    /\ fPc = "resolve"
    /\ LET src == FastResolveColumns(column_mapping.source)
           tgt == FastResolveColumns(column_mapping.target)
       IN IF ~src.ok \/ ~tgt.ok \/ Len(src.cols) # Len(tgt.cols)
          THEN /\ fPc' = "raised"
               /\ outcome' = RaiseOf("ValueError")
               /\ UNCHANGED << source_cols, target_cols, log >>
          ELSE /\ source_cols' = src.cols
               /\ target_cols' = tgt.cols
               /\ log' = Append(log, "columns")
               /\ fPc' = "read"
               /\ UNCHANGED outcome
    /\ UNCHANGED << excel_data, chunk_idx, calls >>
    /\ FastUnchanged

\* lines 374-398: the rows are read; nothing is written when none has data
FastRead ==
    /\ fPc = "read"
    /\ excel_data' = FastExcelData(excel_sheet, source_cols, start_row)
    /\ IF excel_data' = << >>
       THEN /\ log' = Append(log, "warning: no data to copy")
            /\ fPc' = "returned"
            /\ outcome' = ReturnOf(0)
       ELSE /\ log' = Append(log, "uploading")
            /\ fPc' = "upload"
            /\ UNCHANGED outcome
    /\ UNCHANGED << source_cols, target_cols, chunk_idx, calls >>
    /\ FastUnchanged

\* lines 401-429: the bulk write; when it raises, the chunked write takes over
FastUpload ==
    /\ fPc = "upload"
    /\ calls' = Append(calls, UpdateCall(FastRange(target_cols, start_row, Len(excel_data)),
                                         excel_data))
    /\ \E api \in UpdateOutcomes :
          IF api = "ok"
          THEN /\ fPc' = "returned"
               /\ outcome' = ReturnOf(Len(excel_data))
               /\ log' = Append(log, "upload done")
          ELSE /\ fPc' = "chunk"
               /\ log' = log \o << "error: bulk upload", "switching to chunks" >>
               /\ UNCHANGED outcome
    /\ chunk_idx' = 0
    /\ UNCHANGED << source_cols, target_cols, excel_data >>
    /\ FastUnchanged

\* lines 437-459: one pass of the loop of _copy_sheet_data_chunked.  The
\* except clause logs current_chunk, which has no value when the first chunk
\* fails: UnboundLocalError leaves the function in place of the API's error.
FastChunk ==
    /\ fPc = "chunk"
    /\ chunk_idx < Len(excel_data)
    /\ LET chunk_data == ChunkData(excel_data, chunk_idx)
       IN calls' = Append(calls, UpdateCall(FastRange(target_cols, ChunkStartRow(chunk_idx),
                                                      Len(chunk_data)),
                                            chunk_data))
    /\ \E api \in UpdateOutcomes :
          IF api = "ok"
          THEN /\ chunk_idx' = chunk_idx + chunk_size
               /\ log' = Append(log, "chunk loaded")
               /\ UNCHANGED << fPc, outcome >>
          ELSE /\ fPc' = "raised"
               /\ IF chunk_idx = 0
                  THEN /\ outcome' = RaiseOf("UnboundLocalError")
                       /\ UNCHANGED log
                  ELSE /\ outcome' = RaiseOf(api)
                       /\ log' = Append(log, "error: chunk upload")
               /\ UNCHANGED chunk_idx
    /\ UNCHANGED << source_cols, target_cols, excel_data >>
    /\ FastUnchanged

\* line 461: return len(excel_data), after the last chunk
FastChunkedDone ==
    /\ fPc = "chunk"
    /\ chunk_idx >= Len(excel_data)
    /\ fPc' = "returned"
    /\ outcome' = ReturnOf(Len(excel_data))
    /\ UNCHANGED << source_cols, target_cols, excel_data, chunk_idx, calls, log >>
    /\ FastUnchanged

(***************************************************************************)
(* Sheets and mappings the fast copier is run on                           *)
(***************************************************************************)
\* The tall sheets fill up to MaxChunks chunks
MaxChunks == 2

\* The numbers of rows: c chunks exactly, or one row into the chunk after
TallRowCounts ==
    { chunk_size * c : c \in 1..MaxChunks }
        \cup { chunk_size * (c - 1) + 1 : c \in 2..MaxChunks }

\* Row r of a tall sheet holds a text of its own
TallRow(r) ==
    [hidden |-> FALSE,
     cells |-> << TextCell(get_column_letter(r), FALSE, 0), NumberCell(<< "0" >>) >>]

TallSheet(n) == [r \in 1..n |-> TallRow(r)]

FastSheets == SheetRows \cup { TallSheet(n) : n \in TallRowCounts }

FastMappings ==
    { Mapping(<< << "A" >>, << "B" >> >>, << << "B" >>, << "C" >> >>),
      Mapping(<< << "1" >>, << "b" >> >>, << << " ", "c" >>, << "4" >> >>),
      Mapping(<< << "A" >>, << "B" >> >>, << << "B" >>, << "D" >> >>),
      Mapping(<< << "A" >>, << "B" >> >>, << << "B" >>, << "A" >> >>),
      Mapping(<< << "B" >> >>, << << "E" >> >>),
      Mapping(<< << "A" >>, << "B" >> >>, << << "A" >> >>),
      Mapping(<< T_zz9 >>, << << "A" >> >>) }
(***************************************************************************)
(* Specifications                                                          *)
(***************************************************************************)
vars == << resolveVars, translateVars, workerVars, fastVars, cacheVars, copyVars, procVars >>

\* One resolver call on a fresh sheet
InitResolve ==
    /\ rKind \in SheetKinds
    /\ rHeader \in HeaderRows(rKind)
    /\ rCols \in ColumnLists
    /\ rRes = Returned(<< >>)
    /\ rPc = "call"
    /\ TranslateIdle
    /\ WorkerIdle
    /\ FastIdle
    /\ CacheIdle
    /\ CopyIdle
    /\ ProcessIdle

NextResolve ==
    \/ resolve_excel_columns
    \/ resolve_google_columns

SpecResolve == InitResolve /\ [][NextResolve]_vars

\* Resolver calls, object creation and cache clears in any order
InitCache ==
    /\ sheets = << >>
    /\ excel_cache = EmptyDict
    /\ google_cache = EmptyDict
    /\ lastCall = NoCall
    /\ prevCall = NoCall
    /\ ResolveIdle
    /\ TranslateIdle
    /\ WorkerIdle
    /\ FastIdle
    /\ CopyIdle
    /\ ProcessIdle

NextCache ==
    \/ NewSheet
    \/ FreeSheet
    \/ ResolveExcel
    \/ ResolveGoogle
    \/ clear_column_cache

SpecCache == InitCache /\ [][NextCache]_vars

\* One call of copy_sheet_data, the column caches empty
InitCopy ==
    /\ \E rows \in SheetRows, kind \in WorkbookKinds :
          /\ excel_sheet = [data_only |-> kind.sheet, id |-> 1, rows |-> rows]
          /\ excel_sheet_values = kind.values
    /\ google_worksheet = [id |-> 2, header |-> DestinationHeader, sheet_id |-> 0]
    /\ column_mapping \in ColumnMappings
    /\ start_row \in 1..(MaxRow + 1)
    /\ pc = "guard"
    /\ FreshLocals
    /\ calls = << >>
    /\ log = << >>
    /\ outcome = NoOutcome
    /\ ResolveIdle
    /\ TranslateIdle
    /\ WorkerIdle
    /\ FastIdle
    /\ CacheIdle
    /\ ProcessIdle

NextCopy ==
    \/ CopyGuard
    \/ CopyResolveSource
    \/ CopyResolveTarget
    \/ CopyCheckLen
    \/ CopyCheckRows
    \/ CopyScan
    \/ CopyBuild
    \/ CopyWrite
    \/ CopyFormatBatch
    \/ CopyDone

SpecCopy == InitCopy /\ [][NextCopy]_vars

\* One call of copy_sheet_data on a sheet with several batches of formatting
InitBatch ==
    /\ \E n \in BatchRowCounts, kind \in WorkbookKinds :
          /\ excel_sheet = [data_only |-> kind.sheet, id |-> 1, rows |-> WideSheet(n)]
          /\ excel_sheet_values = kind.values
    /\ google_worksheet = [id |-> 2, header |-> DestinationHeader, sheet_id |-> 0]
    /\ column_mapping = Mapping(WideLetters, WideLetters)
    /\ start_row \in 1..2
    /\ pc = "guard"
    /\ FreshLocals
    /\ calls = << >>
    /\ log = << >>
    /\ outcome = NoOutcome
    /\ ResolveIdle
    /\ TranslateIdle
    /\ WorkerIdle
    /\ FastIdle
    /\ CacheIdle
    /\ ProcessIdle

SpecBatch == InitBatch /\ [][NextCopy]_vars

\* One run of process_excel_file; the column caches may hold what an earlier
\* run left
InitProcess ==
    /\ excel_path_exists \in BOOLEAN
    /\ wb_sheetnames \in SUBSET (1..MaxEntries)
    /\ google_sheet \in SUBSET DestinationTitles
    /\ sheet_mapping \in SheetMappings
    /\ config \in Configs
    /\ file_mappings = << >>
    /\ files = << >>
    /\ ppc = "start"
    /\ entry_i = 0
    /\ processed_sheets = 0
    /\ workbooks_open = FALSE
    /\ progress = << >>
    /\ process_log = << >>
    /\ attempts = << >>
    /\ sheets = << >>
    /\ excel_cache \in { EmptyDict, StaleCache }
    /\ google_cache = EmptyDict
    /\ lastCall = NoCall
    /\ prevCall = NoCall
    /\ ResolveIdle
    /\ TranslateIdle
    /\ WorkerIdle
    /\ FastIdle
    /\ CopyIdle

NextProcess ==
    \/ ProcStart
    \/ ProcSkipSource
    \/ ProcSkipDestination
    \/ ProcCallCopy
    \/ ProcAfterCopy
    \/ ProcFinish
    \/ CopyGuard
    \/ CopyResolveSource
    \/ CopyResolveTarget
    \/ CopyCheckLen
    \/ CopyCheckRows
    \/ CopyScan
    \/ CopyBuild
    \/ CopyWrite
    \/ CopyFormatBatch
    \/ CopyDone

SpecProcess == InitProcess /\ [][NextProcess]_vars

\* One run of process_multiple_excel_files; the column caches may hold what
\* an earlier run left
InitMultiple ==
    /\ file_mappings \in FileMappings
    /\ files \in [1..MaxEntries -> FileKinds]
    /\ google_sheet \in SUBSET DestinationTitles
    /\ excel_path_exists = FALSE
    /\ wb_sheetnames = { }
    /\ sheet_mapping = << >>
    /\ config = [column_mapping |-> [source |-> << >>, target |-> << >>], start_row |-> 1]
    /\ ppc = "multi_start"
    /\ entry_i = 0
    /\ processed_sheets = 0
    /\ workbooks_open = FALSE
    /\ progress = << >>
    /\ process_log = << >>
    /\ attempts = << >>
    /\ sheets = << >>
    /\ excel_cache = StaleCache
    /\ google_cache = EmptyDict
    /\ lastCall = NoCall
    /\ prevCall = NoCall
    /\ ResolveIdle
    /\ TranslateIdle
    /\ WorkerIdle
    /\ FastIdle
    /\ CopyIdle

NextMultiple ==
    \/ MultiStart
    \/ MultiSkipFile
    \/ MultiSkipNoSheets
    \/ MultiSkipDestination
    \/ MultiCallCopy
    \/ MultiAfterCopy
    \/ MultiFinish
    \/ CopyGuard
    \/ CopyResolveSource
    \/ CopyResolveTarget
    \/ CopyCheckLen
    \/ CopyCheckRows
    \/ CopyScan
    \/ CopyBuild
    \/ CopyWrite
    \/ CopyFormatBatch
    \/ CopyDone

SpecMultiple == InitMultiple /\ [][NextMultiple]_vars


\* One call of convert_excel_formula_to_google
InitTranslate ==
    /\ tFormula \in TranslatorInputs
    /\ tResult = << >>
    /\ tPc = "call"
    /\ WorkerIdle
    /\ FastIdle
    /\ ResolveIdle
    /\ CacheIdle
    /\ CopyIdle
    /\ ProcessIdle

NextTranslate ==
    \/ Translate

SpecTranslate == InitTranslate /\ [][NextTranslate]_vars

\* One call of copy_sheet_data, or one call of the translator alone
InitValues == InitCopy \/ InitTranslate

NextValues ==
    \/ Translate
    \/ CopyGuard
    \/ CopyResolveSource
    \/ CopyResolveTarget
    \/ CopyCheckLen
    \/ CopyCheckRows
    \/ CopyScan
    \/ CopyBuild
    \/ CopyWrite
    \/ CopyFormatBatch
    \/ CopyDone

SpecValues == InitValues /\ [][NextValues]_vars

\* One run of either entry point
InitRun == InitProcess \/ InitMultiple

NextRun ==
    \/ ProcStart
    \/ ProcSkipSource
    \/ ProcSkipDestination
    \/ ProcCallCopy
    \/ ProcAfterCopy
    \/ ProcFinish
    \/ MultiStart
    \/ MultiSkipFile
    \/ MultiSkipNoSheets
    \/ MultiSkipDestination
    \/ MultiCallCopy
    \/ MultiAfterCopy
    \/ MultiFinish
    \/ CopyGuard
    \/ CopyResolveSource
    \/ CopyResolveTarget
    \/ CopyCheckLen
    \/ CopyCheckRows
    \/ CopyScan
    \/ CopyBuild
    \/ CopyWrite
    \/ CopyFormatBatch
    \/ CopyDone

SpecRun == InitRun /\ [][NextRun]_vars

\* One run of WorkerThread.run in mode "single" or "batch"
InitWorker ==
    /\ mode \in { "single", "batch" }
    /\ terminal = << >>
    /\ wPc = "start"
    /\ IF mode = "single"
       THEN /\ excel_path_exists \in BOOLEAN
            /\ wb_sheetnames \in SUBSET (1..MaxEntries)
            /\ sheet_mapping \in SheetMappings
            /\ config \in Configs
            /\ file_mappings = << >>
            /\ files = << >>
       ELSE /\ file_mappings \in FileMappings
            /\ files \in [1..MaxEntries -> FileKinds]
            /\ excel_path_exists = FALSE
            /\ wb_sheetnames = { }
            /\ sheet_mapping = << >>
            /\ config = [column_mapping |-> [source |-> << >>, target |-> << >>],
                         start_row |-> 1]
    /\ google_sheet \in SUBSET DestinationTitles
    /\ ppc = "idle"
    /\ entry_i = 0
    /\ processed_sheets = 0
    /\ workbooks_open = FALSE
    /\ progress = << >>
    /\ process_log = << >>
    /\ attempts = << >>
    /\ sheets = << >>
    /\ excel_cache = StaleCache
    /\ google_cache = EmptyDict
    /\ lastCall = NoCall
    /\ prevCall = NoCall
    /\ ResolveIdle
    /\ TranslateIdle
    /\ FastIdle
    /\ CopyIdle

NextWorker ==
    \/ WorkerStart
    \/ WorkerEnd
    \/ ProcStart
    \/ ProcSkipSource
    \/ ProcSkipDestination
    \/ ProcCallCopy
    \/ ProcAfterCopy
    \/ ProcFinish
    \/ MultiStart
    \/ MultiSkipFile
    \/ MultiSkipNoSheets
    \/ MultiSkipDestination
    \/ MultiCallCopy
    \/ MultiAfterCopy
    \/ MultiFinish
    \/ CopyGuard
    \/ CopyResolveSource
    \/ CopyResolveTarget
    \/ CopyCheckLen
    \/ CopyCheckRows
    \/ CopyScan
    \/ CopyBuild
    \/ CopyWrite
    \/ CopyFormatBatch
    \/ CopyDone

SpecWorker == InitWorker /\ [][NextWorker]_vars

\* One call of copy_sheet_data on a sheet with formula cells
InitFormula ==
    /\ \E rows \in FormulaSheetRows, kind \in WorkbookKinds :
          /\ excel_sheet = [data_only |-> kind.sheet, id |-> 1, rows |-> rows]
          /\ excel_sheet_values = kind.values
    /\ google_worksheet = [id |-> 2, header |-> DestinationHeader, sheet_id |-> 0]
    /\ column_mapping \in ColumnMappings
    /\ start_row \in 1..(MaxRow + 1)
    /\ pc = "guard"
    /\ FreshLocals
    /\ calls = << >>
    /\ log = << >>
    /\ outcome = NoOutcome
    /\ ResolveIdle
    /\ TranslateIdle
    /\ WorkerIdle
    /\ FastIdle
    /\ CacheIdle
    /\ ProcessIdle

SpecFormula == InitFormula /\ [][NextCopy]_vars

\* One run of process_excel_file over one entry more than MaxEntries
InitEntries ==
    /\ excel_path_exists \in BOOLEAN
    /\ wb_sheetnames \in SUBSET (1..LongRun)
    /\ google_sheet \in SUBSET DestinationTitles
    /\ sheet_mapping \in LongSheetMappings
    /\ config \in Configs
    /\ file_mappings = << >>
    /\ files = << >>
    /\ ppc = "start"
    /\ entry_i = 0
    /\ processed_sheets = 0
    /\ workbooks_open = FALSE
    /\ progress = << >>
    /\ process_log = << >>
    /\ attempts = << >>
    /\ sheets = << >>
    /\ excel_cache \in { EmptyDict, StaleCache }
    /\ google_cache = EmptyDict
    /\ lastCall = NoCall
    /\ prevCall = NoCall
    /\ ResolveIdle
    /\ TranslateIdle
    /\ WorkerIdle
    /\ FastIdle
    /\ CopyIdle

SpecEntries == InitEntries /\ [][NextProcess]_vars

\* One call of _copy_sheet_data_fast
InitFast ==
    /\ \E rows \in FastSheets : excel_sheet = [data_only |-> FALSE, id |-> 1, rows |-> rows]
    /\ excel_sheet_values = NoValuesSheet
    /\ google_worksheet = [id |-> 2, header |-> DestinationHeader, sheet_id |-> 0]
    /\ column_mapping \in FastMappings
    /\ start_row \in 1..2
    /\ pc = "idle"
    /\ FreshLocals
    /\ calls = << >>
    /\ log = << >>
    /\ outcome = NoOutcome
    /\ excel_data = << >>
    /\ chunk_idx = 0
    /\ fPc = "resolve"
    /\ ResolveIdle
    /\ TranslateIdle
    /\ WorkerIdle
    /\ CacheIdle
    /\ ProcessIdle

NextFast ==
    \/ FastResolve
    \/ FastRead
    \/ FastUpload
    \/ FastChunk
    \/ FastChunkedDone

SpecFast == InitFast /\ [][NextFast]_vars
(***************************************************************************)
(* Claims about the column resolvers (SpecResolve, SpecCache)              *)
(***************************************************************************)
Letter(c) == << c >>

\* The header map a call of SpecResolve works with
rHeaderMap == BuildHeaderMap(rKind, rHeader)

\* The inclusive sequence of column letters from index a to index b,
\* ascending when a <= b and descending otherwise
InclusiveColumns(a, b) ==
    IF a <= b
    THEN [i \in 1..(b - a + 1) |-> ColLetters(a + i - 1)]
    ELSE [i \in 1..(a - b + 1) |-> ColLetters(a - i + 1)]

\* The specifier X, resolved on its own, gives at least one valid column
ResolvesToColumn(X) ==
    LET r == ResolveColumns(rHeaderMap, << X >>)
    IN r.ok /\ r.cols # << >> /\ ValidColumnName(r.cols[1])

FirstColumnIndex(X) == ColIndex(ResolveColumns(rHeaderMap, << X >>).cols[1])

IsRangeOf(X, Y) == \E d \in { "-", ":" } : rCols = << RangeOf(X, d, Y) >>

\* C6 as stated: for ANY two column specifiers X and Y (ranges among them)
\* that resolve to a column, resolving "X-Y" or "X:Y" yields the inclusive
\* sequence of column letters from the resolved X to the resolved Y.
C6_RangeExpansionAnyBounds ==
    rPc = "done" =>
        \A X \in BoundSpecs, Y \in BoundSpecs :
            (IsRangeOf(X, Y) /\ ResolvesToColumn(X) /\ ResolvesToColumn(Y)) =>
                /\ rRes.ok
                /\ rRes.cols = InclusiveColumns(FirstColumnIndex(X), FirstColumnIndex(Y))

\* C6 as amended: for any two specifiers X and Y that contain no range
\* delimiter, resolving "X-Y" or "X:Y" yields the inclusive sequence of column
\* letters from the resolved X to the resolved Y (ascending when X <= Y,
\* descending when X > Y) when both resolve to a valid column, and raises
\* otherwise; so ["A-C"] gives A,B,C, ["C-A"] gives C,B,A and ["1-3"] gives
\* A,B,C.
C6_RangeExpansion ==
    rPc = "done" =>
        /\ \A X \in BoundSpecs, Y \in BoundSpecs :
              (IsRangeOf(X, Y) /\ ~HasDelim(X) /\ ~HasDelim(Y)) =>
                  IF ResolvesToColumn(X) /\ ResolvesToColumn(Y)
                  THEN /\ rRes.ok
                       /\ rRes.cols = InclusiveColumns(FirstColumnIndex(X), FirstColumnIndex(Y))
                  ELSE ~rRes.ok
        /\ rCols \in { << << "A", "-", "C" >> >>, << << "1", "-", "3" >> >>, << << "A", ":", "C" >> >> }
              => rRes = Returned(<< Letter("A"), Letter("B"), Letter("C") >>)
        /\ rCols = << << "C", "-", "A" >> >>
              => rRes = Returned(<< Letter("C"), Letter("B"), Letter("A") >>)

\* C6 witness: the descending range "C-A" has been resolved to C, B, A
C6_Witness ==
    /\ rPc = "done"
    /\ rCols = << << "C", "-", "A" >> >>
    /\ rRes.ok
    /\ rRes.cols = << Letter("C"), Letter("B"), Letter("A") >>

\* Column n of row 1 bears the header text t (compared as the resolvers
\* compare: stripped, case-insensitively)
Bears(n, t) ==
    /\ rHeader[n].t # "none"
    /\ str(rHeader[n]) # << >>
    /\ lower(strip(str(rHeader[n]))) = lower(t)

\* A specifier that is not a range, not all digits and not an alphabetic
\* string of length <= 2
IsHeaderText(t) ==
    /\ t # << >>
    /\ ~HasDelim(t)
    /\ ~isdigit(t)
    /\ ~(isalpha(t) /\ Len(t) <= 2)

\* C7: a specifier that is not a range, not all digits and not an alphabetic
\* string of length <= 2 is resolved by case-insensitive lookup against
\* row 1: it resolves to the letter of a column bearing that header, and
\* raises when no column bears it.
C7_HeaderLookupPrecedence ==
    rPc = "done" =>
        \A s \in SimpleSpecs :
            (rCols = << s >> /\ IsHeaderText(strip(s))) =>
                IF \E n \in 1..Len(rHeader) : Bears(n, strip(s))
                THEN /\ rRes.ok
                     /\ Len(rRes.cols) = 1
                     /\ \E n \in 1..Len(rHeader) :
                           Bears(n, strip(s)) /\ rRes.cols[1] = ColLetters(n)
                ELSE ~rRes.ok

\* A specifier is blank when nothing is left of it after strip()
IsBlank(s) == strip(s) = << >>

RECURSIVE Concat(_)
Concat(seqs) == IF seqs = << >> THEN << >> ELSE Head(seqs) \o Concat(Tail(seqs))

C9_ResolveIdempotent ==
    (lastCall.sheet # 0 /\ prevCall.sheet = lastCall.sheet /\ prevCall.cols = lastCall.cols)
        => lastCall.res = prevCall.res

(***************************************************************************)
(* Claims about copy_sheet_data                                            *)
(***************************************************************************)
UpdatesIssued == SelectSeq(calls, LAMBDA c : c.op = "update")
DataRowsRead == SelectSeq(calls, LAMBDA c : c.op = "read_source_row")
BatchUpdatesIssued == SelectSeq(calls, LAMBDA c : c.op = "batch_update")

\* The scan of the data rows has run
Scanned == DataRowsRead # << >>

\* The value the copy takes for a cell: the cached one when a values sheet is given
TakenValue(cell) == IF excel_sheet_values.given THEN cell.cached ELSE cell.value

IsWhitespaceOnly(text) == \A i \in 1..Len(text) : IsSpaceChar(text[i])

\* Data in the sense of the code: a formula, or a value that is neither None
\* nor a text of nothing but whitespace
HasRealData(cell) ==
    \/ get_cell_formula_simple(cell) # NoneValue
    \/ (TakenValue(cell) # NoneValue /\ ~IsWhitespaceOnly(str(TakenValue(cell))))

\* Data in the sense of the specification: a formula, or a value that is
\* neither None nor the empty string
HasNonEmptyData(cell) ==
    \/ get_cell_formula_simple(cell) # NoneValue
    \/ (TakenValue(cell) # NoneValue /\ TakenValue(cell) # StrValue(<< >>))

MappedCell(r, j) == CellAt(excel_sheet, source_cols[j], r)

RowRetained(r) == \E j \in 1..Len(source_cols) : HasRealData(MappedCell(r, j))

ScannedRowNums == [i \in 1..(max_row(excel_sheet) - start_row + 1) |-> start_row + i - 1]

\* The retained rows, in ascending source order
RetainedRowNums == SelectSeq(ScannedRowNums, RowRetained)

SkippedRowNums == { skipped_rows[n][1] : n \in 1..Len(skipped_rows) }

TargetIndex(j) == ColIndex(target_cols[j])
TargetIndices == { TargetIndex(j) : j \in 1..Len(target_cols) }
MinTarget == CHOOSE lo \in TargetIndices : \A c \in TargetIndices : lo <= c
MaxTarget == CHOOSE hi \in TargetIndices : \A c \in TargetIndices : c <= hi
DistinctTargets == Cardinality(TargetIndices) = Len(target_cols)

\* Mapping index j is the last one aimed at its target column
LastForTarget(j) == \A j2 \in (j + 1)..Len(target_cols) : TargetIndex(j2) # TargetIndex(j)

\* C1: the value write holds exactly the retained rows of start_row..max_row
\* in ascending source order, the k-th of them on destination row
\* start_row + k - 1; no row before start_row is read as data or written.
C1_RowCompaction ==
    /\ \A n \in 1..Len(DataRowsRead) : DataRowsRead[n].row >= start_row
    /\ \A n \in 1..Len(UpdatesIssued) :
          LET call == UpdatesIssued[n]
              kept == RetainedRowNums
          IN /\ Len(kept) >= 1
             /\ call.target_range.start_row = start_row
             /\ call.target_range.end_row = start_row + Len(kept) - 1
             /\ Len(call.values) = Len(kept)
             /\ \A k \in 1..Len(kept) : \A j \in 1..Len(target_cols) :
                   /\ kept[k] >= start_row
                   /\ LastForTarget(j) =>
                         call.values[k][TargetIndex(j) - MinTarget + 1]
                            = WrittenValue(CellData(excel_sheet, excel_sheet_values,
                                                    source_cols[j], kept[k]))

\* Row 1 has data, the copy starts at row 2, row 2 is skipped and row 3 lands
\* on destination row 2
C1_Witness ==
    /\ UpdatesIssued # << >>
    /\ start_row = 2
    /\ RowRetained(1)
    /\ RetainedRowNums = << 3 >>
    /\ UpdatesIssued[1].target_range.end_row = 2

PastLengthCheck == pc \notin { "idle", "guard", "resolve_source", "resolve_target", "check_len" }

FailedWithoutSideEffect ==
    /\ pc = "raised"
    /\ outcome.kind = "raise"
    /\ DataRowsRead = << >>
    /\ UpdatesIssued = << >>
    /\ BatchUpdatesIssued = << >>

\* C2 as stated: a call whose source and target specifier lists differ in
\* length raises before any data row is read and before any write.
C2_ListLengthMismatchFails ==
    (PastLengthCheck /\ Len(column_mapping.source) # Len(column_mapping.target))
        => FailedWithoutSideEffect

\* C2: a call whose resolved source and target column lists differ in length
\* raises before any data row is read and before any update or batch_update.
C2_ResolvedLengthMismatchFails ==
    (PastLengthCheck /\ Len(source_cols) # Len(target_cols))
        => FailedWithoutSideEffect

\* Two source columns against one target column: the call has raised at the
\* length check, both header rows read and nothing else
C2_Witness ==
    /\ pc = "raised"
    /\ Len(source_cols) = 2
    /\ Len(target_cols) = 1
    /\ Len(calls) = 2

C4_RetainedIffNonEmpty ==
    Scanned =>
        \A r \in start_row..max_row(excel_sheet) :
            (r \notin SkippedRowNums)
                <=> \E j \in 1..Len(source_cols) : HasNonEmptyData(MappedCell(r, j))

\* C4: a row of start_row..max_row is retained iff one of its mapped cells
\* has a formula or a value that is neither None nor a text of nothing but
\* whitespace; the rows not retained are the skipped ones.
C4_RowRetention ==
    Scanned =>
        /\ \A r \in start_row..max_row(excel_sheet) :
              (r \notin SkippedRowNums) <=> RowRetained(r)
        /\ Len(rows_data) = Len(RetainedRowNums)
        /\ Len(rows_data) + Len(skipped_rows) = Len(ScannedRowNums)

\* A row whose only text is a blank is skipped, a row whose only content is a
\* formula without a cached value is retained
C4_Witness ==
    /\ Scanned
    /\ \E r \in start_row..max_row(excel_sheet) :
          excel_sheet.rows[r] = RowBlank /\ r \in SkippedRowNums
    /\ \E r \in start_row..max_row(excel_sheet) :
          excel_sheet.rows[r] = RowFormula /\ r \notin SkippedRowNums
    /\ excel_sheet_values.given

\* C5: for distinct target columns the update covers the columns from the
\* smallest to the largest target column and the rows start_row ..
\* start_row + n - 1; each matrix row is max_col - min_col + 1 wide, holds
\* the value of mapping index j at offset index(target[j]) - min_col, and
\* holds '' in every column of the span that is no target column.
C5_FullRectangle ==
    \A n \in 1..Len(UpdatesIssued) :
        DistinctTargets =>
            LET call == UpdatesIssued[n]
            IN /\ call.target_range.start_col = get_column_letter(MinTarget)
               /\ call.target_range.end_col = get_column_letter(MaxTarget)
               /\ call.target_range.start_row = start_row
               /\ call.target_range.end_row = start_row + Len(values_to_update) - 1
               /\ Len(call.values) = Len(values_to_update)
               /\ \A k \in 1..Len(call.values) :
                     /\ Len(call.values[k]) = MaxTarget - MinTarget + 1
                     /\ \A j \in 1..Len(target_cols) :
                           call.values[k][TargetIndex(j) - MinTarget + 1]
                              = values_to_update[k][j]
                     /\ \A c \in 1..Len(call.values[k]) :
                           (MinTarget + c - 1) \notin TargetIndices
                              => call.values[k][c] = StrValue(<< >>)

\* Targets C and A: the span A..C, the first value at offset 2, the second at
\* offset 0, column B written as ''
C5_Witness ==
    /\ Len(UpdatesIssued) = 1
    /\ target_cols = << << "C" >>, << "A" >> >>
    /\ Len(UpdatesIssued[1].values) >= 2
    /\ UpdatesIssued[1].values[1][2] = StrValue(<< >>)
    /\ UpdatesIssued[1].values[1][1] # StrValue(<< >>)


\* The copy has logged the message
CopyLogged(message) == \E k \in 1..Len(log) : ToString(log[k]) = ToString(message)

\* A formatting batch raised a quota error
QuotaHit == CopyLogged("warning: API limit, rest of formatting skipped")

\* C14: once a formatting batch_update has raised a quota error, no further
\* batch is sent (the batches sent are the ones up to the failing one, which
\* is the last call made), google_worksheet.update has been called once and
\* is not called again, the warning is logged, and copy_sheet_data goes on
\* to return the number of rows written instead of raising.
C14_QuotaIsPartialSuccess ==
    QuotaHit =>
        /\ pc \in { "return", "returned" }
        /\ Len(UpdatesIssued) = 1
        /\ Len(BatchUpdatesIssued) = (batch_i \div batch_size) + 1
        /\ \A k \in 1..Len(BatchUpdatesIssued) :
              BatchUpdatesIssued[k].requests =
                  Batch(FormatRequests(formats_to_apply, google_worksheet.sheet_id),
                        (k - 1) * batch_size)
        /\ calls[Len(calls)].op = "batch_update"
        /\ outcome.kind # "raise"
        /\ pc = "returned" => outcome = ReturnOf(Len(values_to_update))

\* The first of two batches raised the quota error and the copy returned
C14_Witness ==
    /\ QuotaHit
    /\ pc = "returned"
    /\ batch_i = 0
    /\ Len(formats_to_apply) > batch_size
    /\ Len(BatchUpdatesIssued) = 1
    /\ outcome.value > 0

\* Both column lists are resolved and of one length
ColumnsResolved == target_cols # << >> /\ Len(source_cols) = Len(target_cols)

\* C18: copy_sheet_data returns the number of retained rows, which is the
\* number of rows of the matrix it wrote and not the size of the span it
\* scanned; when no row is retained, the case max_row < start_row included,
\* it returns 0, does not raise, and calls neither update nor batch_update.
C18_RowsWrittenCount ==
    /\ pc = "returned" =>
          /\ outcome = ReturnOf(Len(RetainedRowNums))
          /\ UpdatesIssued # << >> => Len(UpdatesIssued[1].values) = outcome.value
          /\ outcome.value > 0 => UpdatesIssued # << >>
          /\ outcome.value = 0 => (UpdatesIssued = << >> /\ BatchUpdatesIssued = << >>)
    /\ (ColumnsResolved /\ max_row(excel_sheet) < start_row) =>
          /\ pc # "raised"
          /\ UpdatesIssued = << >> /\ BatchUpdatesIssued = << >>
          /\ pc = "returned" => outcome = ReturnOf(0)
    /\ (Scanned /\ RetainedRowNums = << >>) =>
          /\ pc # "raised"
          /\ UpdatesIssued = << >> /\ BatchUpdatesIssued = << >>
          /\ pc = "returned" => outcome = ReturnOf(0)

\* A copy that returned fewer rows than it scanned, all of them written
C18_Witness ==
    /\ pc = "returned"
    /\ outcome.value = 1
    /\ Len(ScannedRowNums) = 3
    /\ Len(UpdatesIssued[1].values) = 1

\* A copy that returned 0 because max_row < start_row
C18_WitnessEmpty ==
    /\ pc = "returned"
    /\ max_row(excel_sheet) < start_row
    /\ outcome = ReturnOf(0)

\* The scan has run to its end
ScanDone == Scanned /\ pc \in { "build", "write", "format", "return", "returned" }

\* C19: a row of the scanned span that is flagged hidden is not among the
\* rows retained for writing, and is in the report of the skipped rows.
C19_HiddenRowsExcluded ==
    ScanDone =>
        \A n \in 1..Len(ScannedRowNums) :
            excel_sheet.rows[ScannedRowNums[n]].hidden =>
                /\ ~RowRetained(ScannedRowNums[n])
                /\ ScannedRowNums[n] \in SkippedRowNums

\* The workbooks the guard rejects: the source sheet's workbook was loaded
\* with data_only=True, or a values sheet is given whose workbook was not
WrongWorkbookKind ==
    \/ excel_sheet.data_only
    \/ (excel_sheet_values.given /\ ~excel_sheet_values.data_only)

\* C22: with a workbook of the wrong kind copy_sheet_data raises ValueError,
\* and has by then logged nothing, resolved no column, read no header or
\* source row and written nothing.
C22_GuardRaisesFirst ==
    (WrongWorkbookKind /\ pc # "guard") =>
        /\ pc = "raised"
        /\ outcome = RaiseOf("ValueError")
        /\ log = << >>
        /\ calls = << >>
        /\ FreshLocals
        /\ CacheIdle

\* A values sheet from a workbook that keeps formulas, over a source sheet
\* with formulas, has been rejected
C22_Witness ==
    /\ pc = "raised"
    /\ ~excel_sheet.data_only
    /\ excel_sheet_values.given
    /\ ~excel_sheet_values.data_only
    /\ \E r \in start_row..max_row(excel_sheet) : excel_sheet.rows[r] = RowComputed
(***************************************************************************)
(* Claims about process_excel_file                                         *)
(***************************************************************************)
Entries == 1..Len(sheet_mapping)

\* The loop is past entry i
Handled(i) == i \in Entries /\ i < entry_i

SourceAbsent(i) == sheet_mapping[i].excel_sheet_name \notin wb_sheetnames
DestinationAbsent(i) == sheet_mapping[i].google_sheet_name \notin google_sheet

\* copy_sheet_data has been called for entry i
Attempted(i) ==
    \/ \E n \in 1..Len(attempts) : attempts[n].entry = i
    \/ (ppc = "copy" /\ entry_i = i)

Logged(level, i) ==
    \E n \in 1..Len(process_log) : process_log[n].level = level /\ process_log[n].entry = i

\* The write calls made on a destination for entry i
WritesFor(i) ==
    { c \in UNION { { attempts[n].calls[m] : m \in 1..Len(attempts[n].calls) } :
                        n \in { n2 \in 1..Len(attempts) : attempts[n2].entry = i } } :
        c.op \in { "update", "batch_update" } }

WriteFailed(n) ==
    /\ attempts[n].calls # << >>
    /\ attempts[n].calls[Len(attempts[n].calls)].op = "update"
    /\ \E k \in 1..Len(attempts[n].log) :
          ToString(attempts[n].log[k]) = ToString("error: writing to Google Sheets")

\* The calls of google_worksheet.update of the n-th call of copy_sheet_data
UpdatesOf(n) == SelectSeq(attempts[n].calls, LAMBDA c : c.op = "update")

MultiEntries == 1..Len(file_mappings)

MultiHandled(i) == i \in MultiEntries /\ i < entry_i

FileAbsent(i) == ~files[file_mappings[i].excel_path].exists

NamedSourceSheetAbsent(i) ==
    /\ files[file_mappings[i].excel_path].exists
    /\ file_mappings[i].excel_sheet
          \notin { files[file_mappings[i].excel_path].sheetnames[n] :
                      n \in 1..Len(files[file_mappings[i].excel_path].sheetnames) }

MultiDestinationAbsent(i) == file_mappings[i].google_sheet \notin google_sheet

\* copy_sheet_data has been called for entry i of file_mappings
MultiAttempted(i) ==
    \/ \E n \in 1..Len(attempts) : attempts[n].entry = i
    \/ (ppc = "multi_copy" /\ entry_i = i)

\* C11: a file mapping whose source file is absent, whose named source sheet
\* is absent from the workbook, or whose destination sheet is absent, is
\* skipped: copy_sheet_data is not called for it and nothing is written, a
\* warning (an error when the lookup of the destination itself failed) is
\* logged for it, and the run goes on with the next entry.
C11_PerEntrySkip ==
    /\ \A i \in MultiEntries :
          (FileAbsent(i) \/ NamedSourceSheetAbsent(i) \/ MultiDestinationAbsent(i)) =>
              /\ ~MultiAttempted(i)
              /\ WritesFor(i) = { }
              /\ MultiHandled(i) => (Logged("warning", i) \/ Logged("error", i))
    /\ ppc = "done" => \A j \in MultiEntries : MultiHandled(j)


(***************************************************************************)
(* Claims about a run of either entry point                                *)
(***************************************************************************)
\* The run is one of process_multiple_excel_files
IsMultiRun == file_mappings # << >>

\* n, the number of entries of the run
RunTotal == IF IsMultiRun THEN Len(file_mappings) ELSE Len(sheet_mapping)

\* The name progress is reported with for entry k
RunEntryName(k) == IF IsMultiRun THEN file_mappings[k].excel_path
                   ELSE sheet_mapping[k].excel_sheet_name

\* The entries the loop is through with
RunHandledCount == IF entry_i = 0 THEN 0 ELSE entry_i - 1

\* C12: in a run of process_excel_file or process_multiple_excel_files over
\* n entries the progress callback has been called once for each entry the
\* loop is through with, in entry order, the k-th call with current = k,
\* total = n and the entry's name, whether the entry was copied, skipped or
\* failed; when the run ends normally there are n calls and the last has
\* current = total.
C12_ProgressOncePerEntry ==
    /\ Len(progress) = RunHandledCount
    /\ \A k \in 1..Len(progress) :
          progress[k] = [current |-> k, total |-> RunTotal, name |-> RunEntryName(k)]
    /\ ppc = "done" =>
          /\ Len(progress) = RunTotal
          /\ progress[Len(progress)].current = progress[Len(progress)].total

\* A finished run with one entry skipped and one failed
C12_Witness ==
    /\ ppc = "done"
    /\ Len(progress) = MaxEntries
    /\ Len(attempts) = 1
    /\ attempts[1].outcome.kind = "raise"
    /\ C12_ProgressOncePerEntry

\* Neither resolver has a header map cached
CachesEmpty == excel_cache = EmptyDict /\ google_cache = EmptyDict

\* C20: in process_multiple_excel_files both header caches are empty when the
\* columns of a file mapping start to be resolved, and when its target
\* columns are resolved the only header map cached is the one just built
\* for the mapping's own source sheet; in process_excel_file both caches are
\* empty when the first resolution of the run starts.
C20_CacheClearedBetweenFiles ==
    /\ (IsMultiRun /\ ppc = "multi_copy" /\ pc = "resolve_source") => CachesEmpty
    /\ (IsMultiRun /\ ppc = "multi_copy" /\ pc = "resolve_target") =>
          /\ google_cache = EmptyDict
          /\ DOMAIN excel_cache \subseteq { excel_sheet.id }
    /\ (~IsMultiRun /\ ppc = "copy" /\ attempts = << >> /\ pc = "resolve_source") => CachesEmpty

\* The second file mapping is about to be resolved, the first one had a
\* destination header read, and nothing is cached
C20_Witness ==
    /\ IsMultiRun
    /\ ppc = "multi_copy"
    /\ entry_i = 2
    /\ pc = "resolve_source"
    /\ Len(attempts) = 1
    /\ \E k \in 1..Len(attempts[1].calls) : attempts[1].calls[k].op = "row_values"
    /\ CachesEmpty

\* C30: between two file mappings of process_multiple_excel_files, and after
\* the last one, no workbook opened for a mapping is still open, whatever
\* the outcome of the mapping was.
C30_WorkbooksReleased ==
    (IsMultiRun /\ ppc \in { "multi_loop", "done" }) => ~workbooks_open
(***************************************************************************)
(* Claims about convert_excel_formula_to_google                            *)
(***************************************************************************)
\* C15: for every pair (localized name, destination name) of the table, a
\* formula that calls the localized function is translated to the same
\* formula with the destination name in its place.
C15_EveryEntryTranslated ==
    tPc = "done" =>
        \A k \in 1..Len(replacements), args \in ArgLists :
            tFormula = Call(replacements[k][1], args) =>
                tResult = Call(replacements[k][2], args)

\* C16: a formula that calls a function whose name is not a key of the
\* table is returned unchanged.
C16_UnlistedUntouched ==
    tPc = "done" =>
        \A name \in UnlistedNames, args \in ArgLists :
            tFormula = Call(name, args) => tResult = tFormula

\* The cell j of the retained row k has no formula
NoFormulaAt(k, j) == Falsy(rows_data[k][j].formula)

\* The matrix of values has been built
ValuesBuilt == values_to_update # << >> /\ Len(values_to_update) = Len(rows_data)

\* C17 as stated: the translator returns a string that does not start with
\* '=' unchanged, and the value written for a retained cell without a formula
\* is the cell's value, None included.
C17_ValueWrittenUnchanged ==
    /\ (tPc = "done" /\ ~StartsWithEq(tFormula)) => tResult = tFormula
    /\ ValuesBuilt =>
          \A k \in 1..Len(rows_data) : \A j \in 1..Len(rows_data[k]) :
              NoFormulaAt(k, j) => values_to_update[k][j] = rows_data[k][j].value

\* C17: the translator returns a string that does not start with '='
\* unchanged, and the value written for a retained cell without a formula is
\* the cell's value when it has one (a string or a number), and the empty
\* string when its value is None.
C17_NonFormulaPassThrough ==
    /\ (tPc = "done" /\ ~StartsWithEq(tFormula)) => tResult = tFormula
    /\ ValuesBuilt =>
          \A k \in 1..Len(rows_data) : \A j \in 1..Len(rows_data[k]) :
              NoFormulaAt(k, j) =>
                  values_to_update[k][j] =
                      (IF rows_data[k][j].value = NoneValue THEN StrValue(<< >>)
                       ELSE rows_data[k][j].value)

\* A retained row with a cell whose value is None, written as '', next to a
\* row with a string and a number
C17_Witness ==
    /\ ValuesBuilt
    /\ \E k \in 1..Len(rows_data) : \E j \in 1..Len(rows_data[k]) :
          /\ NoFormulaAt(k, j)
          /\ rows_data[k][j].value = NoneValue
          /\ values_to_update[k][j] = StrValue(<< >>)
    /\ \E k \in 1..Len(rows_data) : \E j \in 1..Len(rows_data[k]) :
          /\ NoFormulaAt(k, j)
          /\ rows_data[k][j].value = StrValue(T_hi)
          /\ values_to_update[k][j] = StrValue(T_hi)
(***************************************************************************)
(* Claims about WorkerThread.run                                           *)
(***************************************************************************)
\* A sheet pair or a file of the run failed with an error
EntryFailed == \E n \in 1..Len(process_log) : process_log[n].level = "error"

\* C21: a run emits one terminal signal, when it ends: finished_successfully
\* when the processing function returned and no sheet pair or file of the
\* run failed with an error, otherwise error_occurred with the message of
\* the exception.
C21_TerminalSignal ==
    /\ Len(terminal) <= 1
    /\ (wPc = "ended") = (Len(terminal) = 1)
    /\ wPc = "ended" =>
          /\ (terminal[1] = FinishedSuccessfully) = (ppc = "done" /\ ~EntryFailed)
          /\ terminal[1] # FinishedSuccessfully =>
                (terminal[1].signal = "error_occurred" /\ terminal[1].message # "")
(***************************************************************************)
(* Claims about the formula cells copy_sheet_data copies                   *)
(***************************************************************************)
\* The cell is flagged as a formula and none of its attributes holds a text
UnreadableFormula(cell) ==
    /\ cell.data_type = "f"
    /\ cell.value = NoneValue
    /\ cell.formula = NoneValue

AllValuesEmpty(r) ==
    \A j \in 1..Len(source_cols) : TakenValue(MappedCell(r, j)) = NoneValue

\* C23: a cell flagged as a formula whose text cannot be read yields the
\* placeholder formula, and its row is retained, not skipped, even when
\* every value of the row is empty.
C23_UnreadableFormulaKept ==
    ScanDone =>
        \A r \in start_row..max_row(excel_sheet) : \A j \in 1..Len(source_cols) :
            UnreadableFormula(MappedCell(r, j)) =>
                /\ r \notin SkippedRowNums
                /\ \E k \in 1..Len(rows_data) :
                      /\ k = Cardinality({ r2 \in start_row..r : r2 \notin SkippedRowNums })
                      /\ rows_data[k][j].formula = StrValue(FormulaPlaceholder)

\* A row whose values are all empty and that holds an unreadable formula
\* was scanned, next to a row that was skipped
C23_Witness ==
    /\ ScanDone
    /\ skipped_rows # << >>
    /\ \E r \in start_row..max_row(excel_sheet) : \E j \in 1..Len(source_cols) :
          /\ UnreadableFormula(MappedCell(r, j))
          /\ AllValuesEmpty(r)

\* The k-th retained row
RetainedRow(k) == RetainedRowNums[k]

\* C24: for a retained cell with a formula the entry of the matrix of
\* values, and the entry written to the destination, is the translated
\* formula, whatever calculated value the values workbook holds for it.
C24_FormulaWinsOverValue ==
    /\ (ScanDone /\ ValuesBuilt) =>
          \A k \in 1..Len(rows_data) : \A j \in 1..Len(source_cols) :
              LET cell == MappedCell(RetainedRow(k), j)
              IN get_cell_formula_simple(cell) # NoneValue =>
                    values_to_update[k][j]
                       = StrValue(convert_excel_formula_to_google(
                                     str(get_cell_formula_simple(cell))))
    /\ \A n \in 1..Len(UpdatesIssued) :
          \A k \in 1..Len(rows_data) : \A j \in 1..Len(source_cols) :
              LET cell == MappedCell(RetainedRow(k), j)
              IN (get_cell_formula_simple(cell) # NoneValue /\ LastForTarget(j)) =>
                    UpdatesIssued[n].values[k][TargetIndex(j) - MinTarget + 1]
                       = StrValue(convert_excel_formula_to_google(
                                     str(get_cell_formula_simple(cell))))

\* A formula cell with a calculated value in the values workbook has been
\* written
C24_Witness ==
    /\ UpdatesIssued # << >>
    /\ excel_sheet_values.given
    /\ \E k \in 1..Len(rows_data) : \E j \in 1..Len(source_cols) :
          /\ get_cell_formula_simple(MappedCell(RetainedRow(k), j)) # NoneValue
          /\ rows_data[k][j].value = NumValue(<< "7" >>)
          /\ LastForTarget(j)
(***************************************************************************)
(* Claims about the formatting pass of copy_sheet_data                     *)
(***************************************************************************)
\* The cells of the retained rows that carry formatting, row by row: k is
\* the place of the row among the retained rows and j the mapping index,
\* both counted from 1
FormattedCells ==
    LET J == Len(source_cols)
        kept == RetainedRowNums
        all == [n \in 1..(Len(kept) * J) |-> [k |-> ((n - 1) \div J) + 1, j |-> ((n - 1) % J) + 1]]
    IN SelectSeq(all, LAMBDA p :
                    get_cell_formatting(CellAt(excel_sheet, source_cols[p.j], kept[p.k])) # NoFormat)

\* The requests of the batch_update calls b..last, in the order sent
RECURSIVE RequestsFrom(_)
RequestsFrom(b) ==
    IF b > Len(BatchUpdatesIssued) THEN << >>
    ELSE BatchUpdatesIssued[b].requests \o RequestsFrom(b + 1)

SentRequests == RequestsFrom(1)

\* A formatting batch raised
FormatFailed == QuotaHit \/ CopyLogged("warning: not all formatting applied")

\* The copy is past its formatting pass, and the pass sent something
FormattingOver == pc \in { "return", "returned" } /\ BatchUpdatesIssued # << >>

\* C25: a formatting batch is sent only after the value write, which did not
\* raise; when no batch fails the batches hold between 1 and 500 requests
\* each, and the requests sent, in order, are one request per formatted
\* cell of the retained rows, in the order of the cells.
C25_FormattingPass ==
    /\ \A n \in 1..Len(calls) :
          calls[n].op = "batch_update" =>
              /\ \E m \in 1..(n - 1) : calls[m].op = "update"
              /\ \A m \in n..Len(calls) : calls[m].op = "batch_update"
    /\ BatchUpdatesIssued # << >> => (Len(UpdatesIssued) = 1 /\ outcome.kind # "raise")
    /\ (FormattingOver /\ ~FormatFailed) =>
          LET sent == SentRequests
              cells == FormattedCells
              kept == RetainedRowNums
          IN /\ \A b \in 1..Len(BatchUpdatesIssued) :
                   /\ Len(BatchUpdatesIssued[b].requests) >= 1
                   /\ Len(BatchUpdatesIssued[b].requests) <= 500
             /\ sent = FormatRequests(formats_to_apply, google_worksheet.sheet_id)
             /\ Len(sent) = Len(cells)
             /\ \A n \in 1..Len(sent) :
                   /\ sent[n].endRowIndex = start_row + cells[n].k - 1
                   /\ sent[n].endColumnIndex = TargetIndex(cells[n].j)
                   /\ sent[n].userEnteredFormat
                        = get_cell_formatting(MappedCell(kept[cells[n].k], cells[n].j))

\* More than 500 requests went out in two batches, none of which failed
C25_Witness ==
    /\ pc = "returned"
    /\ ~FormatFailed
    /\ Len(BatchUpdatesIssued) = 2
    /\ Len(formats_to_apply) > 500
    /\ Len(BatchUpdatesIssued[2].requests) < 500

\* C26: the request for the formatted cell of the k-th retained row (k from
\* 0) and mapping index j has the 0-based half-open range startRowIndex =
\* start_row+k-1, endRowIndex = start_row+k, startColumnIndex =
\* index(target[j])-1, endColumnIndex = index(target[j]), which is the cell
\* of the written range that holds that cell's value.
C26_FormatCoordinates ==
    (FormattingOver /\ ~FormatFailed) =>
        LET sent == SentRequests
            cells == FormattedCells
            kept == RetainedRowNums
            written == UpdatesIssued[1]
            first_col == ColIndex(written.target_range.start_col)
        IN \A n \in 1..Len(cells) :
              LET k == cells[n].k - 1
                  j == cells[n].j
                  req == sent[n]
              IN /\ req.startRowIndex = start_row + k - 1
                 /\ req.endRowIndex = start_row + k
                 /\ req.startColumnIndex = TargetIndex(j) - 1
                 /\ req.endColumnIndex = TargetIndex(j)
                 /\ req.sheetId = google_worksheet.sheet_id
                 /\ written.target_range.start_row + k = req.endRowIndex
                 /\ first_col <= req.endColumnIndex
                 /\ req.endColumnIndex <= ColIndex(written.target_range.end_col)
                 /\ LastForTarget(j) =>
                       written.values[k + 1][req.endColumnIndex - first_col + 1]
                          = WrittenValue(CellData(excel_sheet, excel_sheet_values,
                                                  source_cols[j], kept[k + 1]))

\* A formatted cell of the second retained row of a copy that starts below
\* row 1 was written away from column A and formatted
C26_Witness ==
    /\ FormattingOver
    /\ ~FormatFailed
    /\ pc = "returned"
    /\ start_row > 1
    /\ \E n \in 1..Len(FormattedCells) :
          /\ FormattedCells[n].k = 2
          /\ TargetIndex(FormattedCells[n].j) > 1
(***************************************************************************)
(* Claims about the header cache within one run of process_excel_file      *)
(***************************************************************************)
\* C27: within one run of process_excel_file the header map a worksheet's
\* columns are resolved with is the one built from that worksheet's own row
\* 1: after the source columns of an entry are resolved the cache holds for
\* the source sheet the map of its row 1, and after the target columns are
\* resolved it holds for the destination worksheet the map of its row 1.
C27_HeaderMapOwnSheet ==
    /\ (ppc = "copy" /\ pc = "resolve_target") =>
          excel_cache[excel_sheet.id] = BuildHeaderMap("excel", HeaderOf(excel_sheet))
    /\ (ppc = "copy" /\ pc = "check_len") =>
          google_cache[google_worksheet.id]
             = BuildHeaderMap("google", google_worksheet.header)
(***************************************************************************)
(* Claims about _copy_sheet_data_fast and _copy_sheet_data_chunked         *)
(***************************************************************************)
\* The update calls the fast copier has made
FastUpdates == SelectSeq(calls, LAMBDA c : c.op = "update")

\* The rows of start_row..max_row in which a mapped cell has a value
FastRetainedRows ==
    SelectSeq([i \in 1..(IF max_row(excel_sheet) >= start_row
                         THEN max_row(excel_sheet) - start_row + 1 ELSE 0) |-> start_row + i - 1],
              LAMBDA r : \E j \in 1..Len(source_cols) :
                            CellAt(excel_sheet, source_cols[j], r).value # NoneValue)

\* The column of the written range the c-th entry of a row of values goes to
LandingColumn(call, c) == ColIndex(call.target_range.start_col) + c - 1

\* C28: every update call of the fast copier puts, for every retained row
\* and mapping index j, the value of source column j into destination column
\* target[j], and writes to no column outside the targets.
C28_FastColumnPlacement ==
    fPc # "idle" =>
        \A n \in 1..Len(FastUpdates) :
            LET call == FastUpdates[n]
            IN /\ \A k \in 1..Len(call.values) :
                     /\ Len(call.values[k]) = Len(target_cols)
                     /\ \A j \in 1..Len(target_cols) :
                           LandingColumn(call, j) = ColIndex(target_cols[j])
               /\ ColIndex(call.target_range.end_col)
                     = LandingColumn(call, Len(target_cols))

\* The bulk write raised and the chunked write took over
FellBack == fPc # "idle" /\ CopyLogged("switching to chunks")

\* The calls of the chunked write: every update after the first
ChunkCalls == SubSeq(FastUpdates, 2, Len(FastUpdates))

\* The destination row of the k-th row of excel_data in the bulk write
BulkRow(k) == FastUpdates[1].target_range.start_row + k - 1

\* The chunk calls that wrote the k-th row of excel_data to the row the bulk
\* write had for it
WritesOfRow(k) ==
    { c \in 1..Len(ChunkCalls) :
        \E i \in 1..Len(ChunkCalls[c].values) :
            /\ ChunkCalls[c].target_range.start_row + i - 1 = BulkRow(k)
            /\ ChunkCalls[c].values[i] = FastUpdates[1].values[k] }

\* C29: after the bulk write raised, chunk c (from 0) holds the rows 100c+1
\* to 100c+100 of the bulk write's rows, at most 100 of them, and goes to
\* the same columns from row start_row+100c on; when no chunk fails every
\* row has been written once, on the row the bulk write had for it, and the
\* number of rows is returned; a failing chunk is the last call made and
\* the fallback raises.
C29_ChunkedEqualsBulk ==
    FellBack =>
        /\ FastUpdates[1].values = excel_data
        /\ \A c \in 1..Len(ChunkCalls) :
              LET call == ChunkCalls[c]
                  first == 100 * (c - 1)
              IN /\ Len(call.values) >= 1
                 /\ Len(call.values) <= 100
                 /\ call.target_range.start_row = start_row + first
                 /\ call.target_range.end_row = start_row + first + Len(call.values) - 1
                 /\ call.target_range.start_col = FastUpdates[1].target_range.start_col
                 /\ call.target_range.end_col = FastUpdates[1].target_range.end_col
                 /\ \A i \in 1..Len(call.values) : call.values[i] = excel_data[first + i]
                 /\ (c < Len(ChunkCalls)) => Len(call.values) = 100
        /\ fPc = "returned" =>
              /\ outcome = ReturnOf(Len(excel_data))
              /\ \A k \in 1..Len(excel_data) : Cardinality(WritesOfRow(k)) = 1
              /\ 100 * (Len(ChunkCalls) - 1) < Len(excel_data)
              /\ Len(excel_data) <= 100 * Len(ChunkCalls)
        /\ fPc = "raised" =>
              /\ outcome.kind = "raise"
              /\ ChunkCalls # << >>
              /\ calls[Len(calls)] = ChunkCalls[Len(ChunkCalls)]
              /\ 100 * Len(ChunkCalls) < Len(excel_data) + 100

\* A fallback of more than one chunk, the last one short, has returned
C29_Witness ==
    /\ FellBack
    /\ fPc = "returned"
    /\ Len(ChunkCalls) = 2
    /\ Len(ChunkCalls[2].values) < 100
    /\ start_row = 2

\* The second chunk of a fallback has failed
C29_WitnessFailure ==
    /\ FellBack
    /\ fPc = "raised"
    /\ Len(ChunkCalls) = 2

====
